---- MODULE Spec2Model ----
(***************************************************************************)
(* Lifecycle runtime of overrun (src/overrun/runtime.py): the scheduler    *)
(* that drives a target DAG through start, run and stop on an asyncio      *)
(* event loop.  The event loop is modelled as its FIFO ready queue: one    *)
(* action per kind of handle the loop runs (a task step, the done          *)
(* callbacks of a task, the signal handler), plus the external events      *)
(* (I/O completion, signal delivery) that the loop polls between two       *)
(* iterations.                                                             *)
(***************************************************************************)
EXTENDS Naturals, Sequences, FiniteSets, TLC

Targets == {"a", "b", "c"}

\* order in which TopologicalSorter.get_ready hands out nodes that are ready together
OrderSeq == <<"a", "b", "c">>

\* capability sets of a target's components
None      == {}                          \* DummyComponent of the tests
StartOnly == {"start"}                   \* BarrierComponent of the tests
RunStop   == {"run", "stop"}             \* a component without start
Exec      == {"start", "run", "stop"}    \* components/exec.py

Graph(b, c) == [t \in Targets |-> CASE t = "a" -> {} [] t = "b" -> b [] OTHER -> c]
Caps(a, b, c) == [t \in Targets |-> CASE t = "a" -> a [] t = "b" -> b [] OTHER -> c]
Scenario(d, k, bar) == [deps |-> d, caps |-> k, barrier |-> bar]

\* the target graphs the runtime is driven through
Scenarios ==
    { \* two independent process targets and a target without start
      Scenario(Graph({}, {}), Caps(Exec, Exec, RunStop), {}),
      \* a chain c -> b -> a
      Scenario(Graph({"a"}, {"b"}), Caps(Exec, StartOnly, Exec), {}),
      \* test_targets_can_start_concurrently: a and b share a barrier, c depends on both
      Scenario(Graph({}, {"a", "b"}), Caps(StartOnly, StartOnly, None), {"a", "b"}),
      \* the same graph with a process as the root, with and without the barrier
      Scenario(Graph({}, {"a", "b"}), Caps(StartOnly, StartOnly, Exec), {"a", "b"}),
      Scenario(Graph({}, {"a", "b"}), Caps(StartOnly, StartOnly, Exec), {}),
      \* a leaf without start, its dependent c, and an independent target b
      Scenario(Graph({}, {"a"}), Caps(None, StartOnly, StartOnly), {}),
      Scenario(Graph({}, {"a"}), Caps(RunStop, Exec, StartOnly), {}),
      \* a startable leaf, its dependent c, and an independent target b
      Scenario(Graph({}, {"a"}), Caps(StartOnly, StartOnly, StartOnly), {}),
      \* no target has a component with a lifecycle method
      Scenario(Graph({"a"}, {}), Caps(None, None, RunStop), {}) }

MAIN == <<"top", "main">>
SIG  == <<"top", "sig">>
PUMP == <<"top", "pump">>
LIFE == <<"top", "life">>

Phases == {"start", "run", "stop"}
Groups == Phases \cup {"outer"}
CompTasks == Phases \X Targets
Tasks == {MAIN, SIG, PUMP, LIFE} \cup CompTasks
Final == {"ok", "failed", "cancelled"}

VARIABLES
    deps,          \* TargetDef.dependencies
    caps,          \* capabilities of each target (Target.startable / runable / stopable)
    barrier,       \* targets whose start shares an asyncio.Barrier (test component)
    ready,         \* event loop: FIFO queue of handles
    ntodo,         \* event loop: handles left to run in the current iteration
    st,            \* state of each task
    mustCancel,    \* Task._must_cancel / cancelled waiter: CancelledError is thrown at the next step
    begun,         \* tasks whose coroutine body has begun to execute
    lifePc,        \* where Runtime._lifecycle is suspended
    mainPc,        \* where Runtime._run is suspended
    passedOut,     \* TopologicalSorter: nodes returned by get_ready
    gDone,         \* TopologicalSorter: nodes marked done
    contexts,      \* Runtime._contexts (its keys: the targets constructed)
    targets,       \* Runtime._targets
    target_starts, \* pending starts of _lifecycle_start
    running,       \* pending runs of _lifecycle_run
    stopping,      \* pending stops of _lifecycle_stop
    tgTasks,       \* TaskGroup._tasks of each task group
    tgAborting,    \* TaskGroup._aborting
    tgErrors,      \* TaskGroup._errors is non-empty
    tgPCR,         \* TaskGroup._parent_cancel_requested
    lifeProp,      \* propagate_cancellation_error of the task group _lifecycle is leaving
    stop_event,    \* the asyncio.Event of _catch_stop_signal
    handlers,      \* INT/TERM handlers are installed on the loop
    arrived,       \* parties that reached the barrier
    startFin,      \* history: targets in the order their start tasks returned
    stopBegun,     \* history: targets in the order their stop began to execute
    runFirst,      \* history: the target whose run was the first to return
    cancelledIn,   \* history: phase _lifecycle was in when _run cancelled it
    stopEntry,     \* history: how Phase 3 was entered ("normal" or "cancel")
    sigAtStop,     \* history: a stop signal had already arrived when Phase 3 began
    readyCalls,    \* history: how often get_ready returned each node
    doneCalls,     \* history: how often each node was given to done
    \* one Target and its components (src/overrun/target.py)
    components,    \* Target.components: the capabilities of each component, in declared order
    t_startable,   \* Target._startable (indices into components)
    t_runable,     \* Target._runable
    t_stopable,    \* Target._stopable
    t_resetable,   \* Target._resetable
    call,          \* the Target method that was called
    pos,           \* position of the for loop of Target.start / Target.stop
    cst,           \* state of each component's method in this call
    compMust,      \* component tasks with a pending CancelledError
    pst,           \* state of the task that executes the Target method
    pMust,         \* that task has a pending CancelledError
    groupTasks,    \* TaskGroup._tasks of Target.run / Target.reset
    groupAborting, \* TaskGroup._aborting
    groupErrors,   \* TaskGroup._errors is non-empty
    groupProp,     \* propagate_cancellation_error of that TaskGroup
    invoked,       \* history: components in the order their method began to execute
    result         \* how the Target method ended

\* the runtime's variables other than the event loop's
runtimeVars == << deps, caps, barrier, st, mustCancel, begun, lifePc, mainPc,
                  passedOut, gDone, contexts, targets, target_starts, running, stopping,
                  tgTasks, tgAborting, tgErrors, tgPCR, lifeProp, stop_event, handlers,
                  arrived, startFin, stopBegun, runFirst, cancelledIn, stopEntry, sigAtStop,
                  readyCalls, doneCalls >>

targetVars == << components, t_startable, t_runable, t_stopable, t_resetable, call, pos,
                 cst, compMust, pst, pMust, groupTasks, groupAborting, groupErrors,
                 groupProp, invoked, result >>

\* the registry under construction (src/overrun/registry.py)
VARIABLES config_ok, files, regPc, scanned, valid_targets, invalid_targets,
          documents_named, ready_nodes, finished, definitions, buildResult,
          cycle_nodes, regOutcome, requested

registryVars == << config_ok, files, regPc, scanned, valid_targets, invalid_targets,
                   documents_named, ready_nodes, finished, definitions, buildResult,
                   cycle_nodes, regOutcome, requested >>

\* the configuration being determined (src/overrun/config.py)
VARIABLES pwd, marks, link, indicators, sibling_patterns, target_patterns, tkind,
          file_in, config_source,
          cfgPc, cwp, sibling_projects, projects, target_directories, cfgOutcome

configVars == << pwd, marks, link, indicators, sibling_patterns, target_patterns, tkind,
                 file_in, config_source, cfgPc, cwp, sibling_projects, projects, target_directories, cfgOutcome >>

\* one Exec component and its subprocess (src/overrun/components/exec.py)
VARIABLES args_env,     \* self.args.env: given or not, and the names it sets
          child_env,    \* the environment the subprocess was spawned with
          proc_state,   \* the subprocess itself: "none", "running", "exit0", "exit1"
          exit_seen,    \* what the transport knows of the exit: "no", "returncode", "closed"
          execPc,       \* where the component is in start and stop
          wake,         \* what ended the wait stop is suspended in
          signals       \* the signals handed to the subprocess, in order

execVars == << args_env, child_env, proc_state, exit_seen, execPc, wake, signals >>

\* the catalog of component types (src/overrun/component.py)
VARIABLES COMPONENT_TYPES, registered

catalogVars == << COMPONENT_TYPES, registered >>

\* one Runtime instance over its invocations (src/overrun/runtime.py)
VARIABLES invocation,   \* the number of the invocation of run, 0 before the first
          invPc,        \* the phase that invocation is in
          graph_left,   \* the targets of its graph not yet started
          rt_targets,   \* self._targets
          ran, stopped  \* which invocation ran / stopped which Target

invocationVars == << invocation, invPc, graph_left, rt_targets, ran, stopped >>

componentVars == << execVars, catalogVars, invocationVars >>

vars == << ready, ntodo, runtimeVars, targetVars, registryVars, configVars, componentVars >>

\* the state as one record; every operation below is a function on it
S == [ deps |-> deps, caps |-> caps, barrier |-> barrier, ready |-> ready, ntodo |-> ntodo,
       st |-> st, mustCancel |-> mustCancel, begun |-> begun, lifePc |-> lifePc,
       mainPc |-> mainPc, passedOut |-> passedOut, gDone |-> gDone, contexts |-> contexts,
       targets |-> targets, target_starts |-> target_starts, running |-> running,
       stopping |-> stopping, tgTasks |-> tgTasks, tgAborting |-> tgAborting,
       tgErrors |-> tgErrors, tgPCR |-> tgPCR, lifeProp |-> lifeProp,
       stop_event |-> stop_event, handlers |-> handlers,
       arrived |-> arrived, startFin |-> startFin, stopBegun |-> stopBegun, runFirst |-> runFirst,
       cancelledIn |-> cancelledIn, stopEntry |-> stopEntry, sigAtStop |-> sigAtStop,
       readyCalls |-> readyCalls, doneCalls |-> doneCalls ]

Set(s) ==
    /\ deps' = s.deps /\ caps' = s.caps /\ barrier' = s.barrier
    /\ ready' = s.ready /\ ntodo' = s.ntodo
    /\ st' = s.st /\ mustCancel' = s.mustCancel /\ begun' = s.begun
    /\ lifePc' = s.lifePc /\ mainPc' = s.mainPc
    /\ passedOut' = s.passedOut /\ gDone' = s.gDone
    /\ contexts' = s.contexts /\ targets' = s.targets
    /\ target_starts' = s.target_starts /\ running' = s.running /\ stopping' = s.stopping
    /\ tgTasks' = s.tgTasks /\ tgAborting' = s.tgAborting
    /\ tgErrors' = s.tgErrors /\ tgPCR' = s.tgPCR /\ lifeProp' = s.lifeProp
    /\ stop_event' = s.stop_event /\ handlers' = s.handlers
    /\ arrived' = s.arrived /\ startFin' = s.startFin /\ stopBegun' = s.stopBegun /\ runFirst' = s.runFirst
    /\ cancelledIn' = s.cancelledIn /\ stopEntry' = s.stopEntry /\ sigAtStop' = s.sigAtStop
    /\ readyCalls' = s.readyCalls /\ doneCalls' = s.doneCalls
    /\ UNCHANGED targetVars
    /\ UNCHANGED registryVars
    /\ UNCHANGED configVars
    /\ UNCHANGED componentVars

----------------------------------------------------------------------------
\* Sequences and orders

Reverse(q) == [i \in 1..Len(q) |-> q[Len(q) + 1 - i]]

Range(q) == {q[i] : i \in 1..Len(q)}

\* every order in which the elements of a set can be iterated
PermsOf(set) ==
    {p \in [1..Cardinality(set) -> set] : \A i, j \in 1..Cardinality(set) : p[i] = p[j] => i = j}

StepH(x) == [k |-> "step", x |-> x]
CbH(x)   == [k |-> "cb", x |-> x]
SigH     == [k |-> "sig", x |-> SIG]

GroupOf(x) == IF x[1] = "top" THEN "outer" ELSE x[1]
ParentOf(g) == IF g = "outer" THEN MAIN ELSE LIFE

WaitPc(g) == CASE g = "start" -> "start_wait" [] g = "run" -> "run_wait"
               [] g = "stop" -> "stop_wait" [] OTHER -> "wait"
ExitPc(g) == CASE g = "start" -> "start_exit" [] g = "run" -> "run_exit"
               [] g = "stop" -> "stop_exit" [] OTHER -> "exit"
PcOf(s, g) == IF g = "outer" THEN s.mainPc ELSE s.lifePc

\* phase of the lifecycle a suspension point belongs to
PhaseOfPc(pc) ==
    CASE pc \in {"init", "start_wait", "start_exit"} -> "start"
      [] pc \in {"run_wait", "run_exit"} -> "run"
      [] pc \in {"stop_wait", "stop_exit"} -> "stop"
      [] OTHER -> "none"

----------------------------------------------------------------------------
\* asyncio primitives

\* loop.call_soon of a task's first step (loop.create_task) inside TaskGroup.create_task
CreateTask(s, g, x) ==
    [s EXCEPT !.st[x] = "new", !.ready = Append(@, StepH(x)), !.tgTasks[g] = @ \cup {x}]

\* Task.cancel(): a suspended task is woken with CancelledError, a task whose
\* step is already queued gets it thrown in at that step, a finished task is left alone
Cancel(s, x) ==
    IF s.st[x] = "susp"
    THEN [s EXCEPT !.st[x] = "ready", !.mustCancel[x] = TRUE, !.ready = Append(@, StepH(x))]
    ELSE IF s.st[x] \in {"new", "ready"}
    THEN [s EXCEPT !.mustCancel[x] = TRUE]
    ELSE s

RECURSIVE CancelAll(_, _)
CancelAll(s, q) == IF q = <<>> THEN s ELSE CancelAll(Cancel(s, Head(q)), Tail(q))

\* a TaskGroup._abort that marks the group aborting and cancels nothing
AbortNoCancel(s, g, ord) == [s EXCEPT !.tgAborting[g] = TRUE]

\* TaskGroup._abort: cancel every task of the group that is not done, in the
\* iteration order ord of the set _tasks
Abort(s, g, ord) ==
    CancelAll([s EXCEPT !.tgAborting[g] = TRUE],
              SelectSeq(ord, LAMBDA x : x \in s.tgTasks[g]))

\* a task's coroutine returned, raised or was cancelled: its done callbacks are scheduled
Finish(s, x, o) ==
    [s EXCEPT !.st[x] = o, !.mustCancel[x] = FALSE, !.ready = Append(@, CbH(x)),
              !.startFin = IF x[1] = "start" /\ o = "ok" THEN Append(@, x[2]) ELSE @,
              !.runFirst = IF x[1] = "run" /\ o = "ok" /\ @ = "none" THEN x[2] ELSE @]

\* the awaiting task is woken by the result of the future it waits for
Wake(s, x) ==
    IF s.st[x] = "susp"
    THEN [s EXCEPT !.st[x] = "ready", !.ready = Append(@, StepH(x))]
    ELSE s

\* the loop takes the handle at the head of the ready queue
Pop(s) == [s EXCEPT !.ready = Tail(@), !.ntodo = @ - 1]

HeadIs(h) == ntodo > 0 /\ ready # <<>> /\ Head(ready) = h

----------------------------------------------------------------------------
\* TopologicalSorter

\* a ready queue that ignores the predecessors of a node
ReadyNodesNoDeps(s) == Targets \ s.passedOut

ReadyNodes(s) == {t \in Targets \ s.passedOut : s.deps[t] \subseteq s.gDone}

is_active(s) == Cardinality(s.gDone) < Cardinality(s.passedOut) \/ ReadyNodes(s) # {}

----------------------------------------------------------------------------
\* no Target method is called: the runtime's targets are driven as wholes
TargetIdle ==
    /\ components = <<>>
    /\ t_startable = <<>> /\ t_runable = <<>> /\ t_stopable = <<>> /\ t_resetable = <<>>
    /\ call = "none" /\ pos = 1
    /\ cst = <<>> /\ compMust = {}
    /\ pst = "none" /\ pMust = FALSE
    /\ groupTasks = {} /\ groupAborting = FALSE /\ groupErrors = FALSE /\ groupProp = FALSE
    /\ invoked = <<>> /\ result = "none"

\* no registry is being constructed
RegistryIdle ==
    /\ config_ok = FALSE /\ files = <<>> /\ regPc = "idle" /\ scanned = 0
    /\ valid_targets = <<>> /\ invalid_targets = <<>>
    /\ documents_named = <<>> /\ ready_nodes = <<>> /\ finished = {}
    /\ definitions = <<>> /\ buildResult = "none" /\ cycle_nodes = <<>>
    /\ regOutcome = "none" /\ requested = "none"

\* no configuration is being determined
ConfigIdle ==
    /\ pwd = <<>> /\ marks = <<>> /\ link = <<>> /\ indicators = <<>>
    /\ sibling_patterns = <<>> /\ target_patterns = <<>> /\ tkind = <<>>
    /\ file_in = <<>> /\ config_source = "none"
    /\ cfgPc = "idle" /\ cwp = <<>> /\ sibling_projects = {} /\ projects = {}
    /\ target_directories = <<>> /\ cfgOutcome = "none"

\* no component is being started or stopped
ExecIdle ==
    /\ args_env = <<>> /\ child_env = <<>> /\ proc_state = "none" /\ exit_seen = "no"
    /\ execPc = "idle" /\ wake = "none" /\ signals = <<>>

\* no component type is being registered
CatalogIdle == COMPONENT_TYPES = <<>> /\ registered = <<>>

\* no Runtime is being invoked again
InvocationIdle ==
    /\ invocation = 0 /\ invPc = "none" /\ graph_left = {} /\ rt_targets = <<>>
    /\ ran = {} /\ stopped = {}

ComponentsIdle == ExecIdle /\ CatalogIdle /\ InvocationIdle

\* the Runtime as constructed, for a graph of scs, with the handles q ready on the loop
RuntimeInit(scs, q) ==
    /\ \E sc \in scs : deps = sc.deps /\ caps = sc.caps /\ barrier = sc.barrier
    /\ ready = q
    /\ ntodo = 0
    /\ st = [x \in Tasks |-> IF x = MAIN /\ q # <<>> THEN "new" ELSE "none"]
    /\ mustCancel = [x \in Tasks |-> FALSE]
    /\ begun = {}
    /\ lifePc = "init"
    /\ mainPc = "init"
    /\ passedOut = {}
    /\ gDone = {}
    /\ contexts = {}
    /\ targets = <<>>
    /\ target_starts = {}
    /\ running = {}
    /\ stopping = {}
    /\ tgTasks = [g \in Groups |-> {}]
    /\ tgAborting = [g \in Groups |-> FALSE]
    /\ tgErrors = [g \in Groups |-> FALSE]
    /\ tgPCR = [g \in Groups |-> FALSE]
    /\ lifeProp = FALSE
    /\ stop_event = FALSE
    /\ handlers = FALSE
    /\ arrived = {}
    /\ startFin = <<>>
    /\ stopBegun = <<>>
    /\ runFirst = "none"
    /\ cancelledIn = "none"
    /\ stopEntry = "none"
    /\ sigAtStop = FALSE
    /\ readyCalls = [t \in Targets |-> 0]
    /\ doneCalls = [t \in Targets |-> 0]

Init ==
    RuntimeInit(Scenarios, <<StepH(MAIN)>>) /\ TargetIdle /\ RegistryIdle /\ ConfigIdle
        /\ ComponentsIdle

----------------------------------------------------------------------------
\* Runtime._lifecycle: the code between two suspension points is one step.
\* lifePc names the suspension point ("start_wait": asyncio.wait of
\* _lifecycle_start, "start_exit": __aexit__ of its TaskGroup, ...) or, inside
\* a step, the statement the coroutine is at.

startable(s, t) == "start" \in s.caps[t]
runable(s, t)   == "run" \in s.caps[t]
stopable(s, t)  == "stop" \in s.caps[t]

\* a scheduler that takes one ready node at a time
ReadyBatchFirst(s) ==
    LET q == SelectSeq(OrderSeq, LAMBDA t : t \in ReadyNodes(s))
    IN  IF q = <<>> THEN q ELSE <<Head(q)>>

\* a scheduler that works in discrete waves: nothing is handed out while a start is pending
ReadyBatchWave(s) ==
    IF s.target_starts = {} THEN SelectSeq(OrderSeq, LAMBDA t : t \in ReadyNodes(s)) ELSE <<>>

\* target_graph.get_ready(): every node whose predecessors are all done
ReadyBatch(s) == SelectSeq(OrderSeq, LAMBDA t : t \in ReadyNodes(s))

\* body of "for target_def in target_defs": construct the context and the
\* target, dispatch its start or mark it done
Construct(s, t) ==
    LET s1 == [s EXCEPT !.contexts = @ \cup {t}]
    IN  IF startable(s, t)
        THEN [CreateTask(s1, "start", <<"start", t>>) EXCEPT !.target_starts = @ \cup {t}]
        ELSE [s1 EXCEPT !.gDone = @ \cup {t}, !.doneCalls[t] = @ + 1]

RECURSIVE ConstructAll(_, _)
ConstructAll(s, q) == IF q = <<>> THEN s ELSE ConstructAll(Construct(s, Head(q)), Tail(q))

DrainReady(s) ==
    LET rdy == ReadyBatch(s)
    IN  ConstructAll([s EXCEPT !.passedOut = @ \cup Range(rdy),
                                !.readyCalls = [t \in Targets |->
                                                   IF t \in Range(rdy) THEN @[t] + 1 ELSE @[t]]],
                     rdy)

\* a loop body that leaves the finished task in target_starts
StartDoneKeep(s, t) ==
    [s EXCEPT !.targets = Append(@, t), !.gDone = @ \cup {t}, !.doneCalls[t] = @ + 1]

\* body of "for task in done" of _lifecycle_start
StartDone(s, t) ==
    [s EXCEPT !.targets = Append(@, t), !.target_starts = @ \ {t}, !.gDone = @ \cup {t},
              !.doneCalls[t] = @ + 1]

RECURSIVE StartDoneAll(_, _)
StartDoneAll(s, q) == IF q = <<>> THEN s ELSE StartDoneAll(StartDone(s, Head(q)), Tail(q))

\* runable = [target for target in self._targets if target.runable]
RunList(s) == SelectSeq(s.targets, LAMBDA t : runable(s, t))

\* stop lists that forget reversed(), or that stop one target only
StopListForward(s) == SelectSeq(s.targets, LAMBDA t : stopable(s, t))
StopListHeadOnly(s) ==
    LET q == SelectSeq(Reverse(s.targets), LAMBDA t : stopable(s, t))
    IN  IF q = <<>> THEN q ELSE <<Head(q)>>

\* stopable = [target for target in reversed(self._targets) if target.stopable]
StopList(s) == SelectSeq(Reverse(s.targets), LAMBDA t : stopable(s, t))

RECURSIVE CreateAll(_, _, _)
CreateAll(s, g, q) ==
    IF q = <<>> THEN s ELSE CreateAll(CreateTask(s, g, <<g, Head(q)>>), g, Tail(q))

\* a task group that forgets the errors of its tasks
GroupResultNoErrors(s, g) == IF s.lifeProp THEN "cancel" ELSE "normal"

\* how a TaskGroup's __aexit__ ends once its tasks are all done
GroupResult(s, g) ==
    IF s.tgErrors[g] THEN "error" ELSE IF s.lifeProp THEN "cancel" ELSE "normal"

\* a _lifecycle whose try also guards _lifecycle_start
AfterStartGuarded(res) ==
    CASE res = "normal" -> "run_begin"
      [] res = "cancel" -> "stop_begin_cancel"
      [] OTHER -> "end_failed"

\* _lifecycle: _lifecycle_start is awaited outside the try
AfterStart(res) ==
    CASE res = "normal" -> "run_begin"
      [] res = "cancel" -> "end_cancelled"
      [] OTHER -> "end_failed"

\* _lifecycle: try _lifecycle_run / except CancelledError / else
AfterRun(res) ==
    CASE res = "normal" -> "stop_begin_normal"
      [] res = "cancel" -> "stop_begin_cancel"
      [] OTHER -> "end_failed"

\* _lifecycle: _lifecycle_stop is awaited inside the except and else clauses
AfterStop(res) ==
    CASE res = "normal" -> "end_ok"
      [] res = "cancel" -> "end_cancelled"
      [] OTHER -> "end_failed"

Suspend(s, pc) == [s EXCEPT !.lifePc = pc, !.st[LIFE] = "susp"]

End(s, o) == Finish([s EXCEPT !.lifePc = "done"], LIFE, o)

\* TaskGroup.__aexit__ up to its while loop: et is the exception the body left with
BodyExit(s, g, et, ord) ==
    LET s1 == [s EXCEPT !.lifeProp = (et = "cancel") /\ (s.tgPCR[g] => s.cancelledIn # "none")]
        s2 == IF et # "none" /\ ~s.tgAborting[g] THEN Abort(s1, g, ord) ELSE s1
    IN  [s2 EXCEPT !.lifePc = CASE g = "start" -> "start_aexit" [] g = "run" -> "run_aexit"
                                 [] OTHER -> "stop_aexit"]

\* an __aexit__ that does not wait for the tasks of the group
AExitLoopNoWait(s, g, next) == [s EXCEPT !.lifePc = next]

\* "while self._tasks: await self._on_completed_fut" and the result of __aexit__
AExitLoop(s, g, next) ==
    IF s.tgTasks[g] # {} THEN Suspend(s, ExitPc(g)) ELSE [s EXCEPT !.lifePc = next]

RECURSIVE Advance(_)
Advance(s) ==
    CASE s.lifePc = "start_loop" ->
            IF is_active(s) \/ s.target_starts # {}
            THEN LET s1 == DrainReady(s)
                 IN  IF s1.target_starts = {}
                     THEN Advance(s1)                      \* ValueError suppressed
                     ELSE Suspend(s1, "start_wait")
            ELSE Advance(BodyExit(s, "start", "none", <<>>))
      [] s.lifePc = "start_aexit" ->
            LET s1 == AExitLoop(s, "start", AfterStart(GroupResult(s, "start")))
            IN  IF s1.st[LIFE] = "susp" THEN s1 ELSE Advance(s1)
      [] s.lifePc = "run_begin" ->
            LET q == RunList(s)
            IN  Advance([CreateAll(s, "run", q) EXCEPT !.running = Range(q), !.lifePc = "run_loop"])
      [] s.lifePc = "run_loop" ->
            IF s.running # {} THEN Suspend(s, "run_wait")
            ELSE Advance(BodyExit(s, "run", "none", <<>>))
      [] s.lifePc = "run_aexit" ->
            LET s1 == AExitLoop(s, "run", AfterRun(GroupResult(s, "run")))
            IN  IF s1.st[LIFE] = "susp" THEN s1 ELSE Advance(s1)
      [] s.lifePc \in {"stop_begin_normal", "stop_begin_cancel"} ->
            LET q == StopList(s)
            IN  Advance([CreateAll(s, "stop", q) EXCEPT
                            !.stopping = Range(q),
                            !.stopEntry = IF s.lifePc = "stop_begin_normal" THEN "normal" ELSE "cancel",
                            !.sigAtStop = s.stop_event \/ SigH \in Range(s.ready),
                            !.lifePc = "stop_loop"])
      [] s.lifePc = "stop_loop" ->
            IF s.stopping # {} THEN Suspend(s, "stop_wait")
            ELSE Advance(BodyExit(s, "stop", "none", <<>>))
      [] s.lifePc = "stop_aexit" ->
            LET s1 == AExitLoop(s, "stop", AfterStop(GroupResult(s, "stop")))
            IN  IF s1.st[LIFE] = "susp" THEN s1 ELSE Advance(s1)
      [] s.lifePc = "end_ok" -> End(s, "ok")
      [] s.lifePc = "end_cancelled" -> End(s, "cancelled")
      [] s.lifePc = "end_failed" -> End(s, "failed")
      [] OTHER -> s

\* the tasks of a wait set that are done when the waiter resumes
DoneOf(s, g, waitSet) == {t \in waitSet : s.st[<<g, t>>] \in Final}

\* targets whose task the group still holds and that are not done
LiveOf(s, g) == {x \in s.tgTasks[g] : s.st[x] \notin Final}

\* first step of the _lifecycle task
LifeBegin ==
    /\ HeadIs(StepH(LIFE)) /\ lifePc = "init"
    /\ Set(Advance([Pop(S) EXCEPT !.lifePc = "start_loop"]))

\* asyncio.wait of _lifecycle_start returns: lines 125-133
StartWake ==
    /\ HeadIs(StepH(LIFE)) /\ lifePc = "start_wait" /\ ~mustCancel[LIFE]
    /\ \E ord \in PermsOf(DoneOf(S, "start", target_starts)) :
          Set(Advance([StartDoneAll(Pop(S), ord) EXCEPT !.lifePc = "start_loop"]))

\* asyncio.wait of _lifecycle_run returns: lines 146-152
RunWake ==
    /\ HeadIs(StepH(LIFE)) /\ lifePc = "run_wait" /\ ~mustCancel[LIFE]
    /\ Set(Advance([Pop(S) EXCEPT !.running = @ \ DoneOf(S, "run", running),
                                  !.lifePc = "run_loop"]))

\* asyncio.wait of _lifecycle_stop returns: lines 165-171
StopWake ==
    /\ HeadIs(StepH(LIFE)) /\ lifePc = "stop_wait" /\ ~mustCancel[LIFE]
    /\ Set(Advance([Pop(S) EXCEPT !.stopping = @ \ DoneOf(S, "stop", stopping),
                                  !.lifePc = "stop_loop"]))

\* CancelledError is thrown into asyncio.wait of phase g and leaves the TaskGroup body
WaitCancelled(g) ==
    /\ HeadIs(StepH(LIFE)) /\ lifePc = WaitPc(g) /\ mustCancel[LIFE]
    /\ \E ord \in PermsOf(LiveOf(S, g)) :
          Set(Advance(BodyExit([Pop(S) EXCEPT !.mustCancel[LIFE] = FALSE], g, "cancel", ord)))

StartCancelled == WaitCancelled("start")
RunCancelled   == WaitCancelled("run")
StopCancelled  == WaitCancelled("stop")

\* the task resumes inside "while self._tasks" of TaskGroup.__aexit__
ExitWake(g) ==
    /\ HeadIs(StepH(LIFE)) /\ lifePc = ExitPc(g)
    /\ \E ord \in PermsOf(LiveOf(S, g)) :
          LET s0 == [Pop(S) EXCEPT !.mustCancel[LIFE] = FALSE]
              s1 == IF mustCancel[LIFE] /\ ~tgAborting[g]
                    THEN Abort([s0 EXCEPT !.lifeProp = TRUE], g, ord)
                    ELSE s0
          IN  Set(Advance([s1 EXCEPT !.lifePc = CASE g = "start" -> "start_aexit"
                                                  [] g = "run" -> "run_aexit"
                                                  [] OTHER -> "stop_aexit"]))

StartExitWake == ExitWake("start")
RunExitWake   == ExitWake("run")
StopExitWake  == ExitWake("stop")

----------------------------------------------------------------------------
\* Component tasks: Target.start, Target.run and Target.stop.  What a
\* component does is outside the runtime: a body returns, raises or suspends
\* on I/O at each step.

IsBarrier(x) == x[1] = "start" /\ x[2] \in barrier

\* first step of a task: the body begins
TaskBegin(x, o) ==
    /\ x \in CompTasks /\ ~IsBarrier(x)
    /\ HeadIs(StepH(x)) /\ st[x] = "new" /\ ~mustCancel[x]
    /\ LET s0 == [Pop(S) EXCEPT !.begun = @ \cup {x},
                                 !.stopBegun = IF x[1] = "stop" THEN Append(@, x[2]) ELSE @]
       IN  Set(IF o = "susp" THEN [s0 EXCEPT !.st[x] = "susp"] ELSE Finish(s0, x, o))

\* BarrierComponent.start: the last party to arrive releases the others
BarrierBegin(x) ==
    /\ x \in CompTasks /\ IsBarrier(x)
    /\ HeadIs(StepH(x)) /\ st[x] = "new" /\ ~mustCancel[x]
    /\ LET s0 == [Pop(S) EXCEPT !.begun = @ \cup {x}, !.arrived = @ \cup {x[2]}]
           others == SelectSeq(OrderSeq, LAMBDA t : t \in arrived)
           RECURSIVE WakeAll(_, _)
           WakeAll(s, q) == IF q = <<>> THEN s
                            ELSE WakeAll(Wake(s, <<"start", Head(q)>>), Tail(q))
       IN  Set(IF s0.arrived = barrier
               THEN Finish(WakeAll(s0, others), x, "ok")
               ELSE [s0 EXCEPT !.st[x] = "susp"])

\* the step of a task after the future it awaited got its result
TaskResume(x, o) ==
    /\ x \in CompTasks
    /\ HeadIs(StepH(x)) /\ st[x] = "ready" /\ ~mustCancel[x]
    /\ IsBarrier(x) => o = "ok"
    /\ Set(Finish(Pop(S), x, o))

\* a step at which CancelledError is thrown into the task: a body that has not
\* begun never runs, a body in flight lets the error propagate
TaskCancelled(x) ==
    /\ x \in CompTasks
    /\ HeadIs(StepH(x)) /\ mustCancel[x]
    /\ Set(Finish(Pop(S), x, "cancelled"))

\* the future a suspended body awaits gets its result (subprocess exit, I/O)
IOComplete(x) ==
    /\ x \in CompTasks /\ ~IsBarrier(x)
    /\ ntodo = 0 /\ st[x] = "susp"
    /\ Set(Wake(S, x))

\* the done callbacks of task x, in the order they were added:
\* TaskGroup._on_task_done, then _on_completion of the asyncio.wait x is part of
OnTaskDone(s, x, ord) ==
    LET g  == GroupOf(x)
        p  == ParentOf(g)
        s1 == [s EXCEPT !.tgTasks[g] = @ \ {x}]
        s2 == IF PcOf(s1, g) = ExitPc(g) /\ s1.tgTasks[g] = {} THEN Wake(s1, p) ELSE s1
    IN  IF s.st[x] # "failed" \/ s.st[p] \in Final
        THEN IF s.st[x] = "failed" THEN [s2 EXCEPT !.tgErrors[g] = TRUE] ELSE s2
        ELSE LET s3 == [s2 EXCEPT !.tgErrors[g] = TRUE]
             IN  IF ~s3.tgAborting[g] /\ ~s3.tgPCR[g]
                 THEN Cancel([Abort(s3, g, ord) EXCEPT !.tgPCR[g] = TRUE], p)
                 ELSE s3

WaitSetOf(s, g) ==
    CASE g = "start" -> {<<"start", t>> : t \in s.target_starts}
      [] g = "run"   -> {<<"run", t>> : t \in s.running}
      [] g = "stop"  -> {<<"stop", t>> : t \in s.stopping}
      [] OTHER       -> {SIG, PUMP, LIFE}

OnCompletion(s, x) ==
    LET g == GroupOf(x)
    IN  IF PcOf(s, g) = WaitPc(g) /\ x \in WaitSetOf(s, g) THEN Wake(s, ParentOf(g)) ELSE s

TaskCallbacks(x) ==
    /\ x \in Tasks \ {MAIN}
    /\ HeadIs(CbH(x))
    /\ \E ord \in PermsOf(LiveOf(S, GroupOf(x)) \ {x}) :
          Set(OnCompletion(OnTaskDone(Pop(S), x, ord), x))

----------------------------------------------------------------------------
\* Runtime._run and its two helper tasks

\* stop_event.wait()
SigStep ==
    /\ HeadIs(StepH(SIG))
    /\ Set(IF mustCancel[SIG] THEN Finish(Pop(S), SIG, "cancelled")
           ELSE IF stop_event THEN Finish([Pop(S) EXCEPT !.begun = @ \cup {SIG}], SIG, "ok")
           ELSE [Pop(S) EXCEPT !.st[SIG] = "susp", !.begun = @ \cup {SIG}])

\* _process_events: asyncio.sleep(sys.maxsize) only ever ends by cancellation
PumpStep ==
    /\ HeadIs(StepH(PUMP))
    /\ Set(IF mustCancel[PUMP] THEN Finish(Pop(S), PUMP, "cancelled")
           ELSE [Pop(S) EXCEPT !.st[PUMP] = "susp", !.begun = @ \cup {PUMP}])

\* the process receives INT or TERM (any number of times between two
\* iterations of the loop): the loop queues the handler
Signal ==
    /\ ntodo = 0 /\ handlers /\ SigH \notin Range(ready)
    /\ Set([S EXCEPT !.ready = Append(@, SigH)])

\* set_stop_signal
SigHandler ==
    /\ HeadIs(SigH)
    /\ Set(IF stop_event THEN Pop(S) ELSE Wake([Pop(S) EXCEPT !.stop_event = TRUE], SIG))

\* __aexit__ of the TaskGroup of _run, then the exit of _catch_stop_signal:
\* the handlers are removed by the code after its yield
MainAExit(s) ==
    IF s.tgTasks["outer"] # {}
    THEN [s EXCEPT !.mainPc = "exit", !.st[MAIN] = "susp"]
    ELSE IF s.tgErrors["outer"]
    THEN [s EXCEPT !.mainPc = "raised", !.st[MAIN] = "failed"]
    ELSE [s EXCEPT !.mainPc = "returned", !.st[MAIN] = "ok", !.handlers = FALSE]

\* _run up to its asyncio.wait: lines 53-64
MainBegin ==
    /\ HeadIs(StepH(MAIN)) /\ mainPc = "init"
    /\ LET s0 == [Pop(S) EXCEPT !.handlers = TRUE, !.begun = @ \cup {MAIN}]
           s1 == CreateTask(CreateTask(CreateTask(s0, "outer", SIG), "outer", PUMP), "outer", LIFE)
       IN  Set([s1 EXCEPT !.mainPc = "wait", !.st[MAIN] = "susp"])

\* a _run that forgets to cancel the event pump and the signal watcher
MainWakeNoCancel ==
    /\ HeadIs(StepH(MAIN)) /\ mainPc = "wait" /\ ~mustCancel[MAIN]
    /\ Set(MainAExit(Pop(S)))

\* asyncio.wait of _run returns: lines 66-74
MainWake ==
    /\ HeadIs(StepH(MAIN)) /\ mainPc = "wait" /\ ~mustCancel[MAIN]
    /\ LET s0 == Pop(S)
           s1 == IF st[PUMP] \notin Final THEN Cancel(s0, PUMP) ELSE s0
           s2 == IF st[SIG] \notin Final THEN Cancel(s1, SIG) ELSE s1
           s3 == IF st[LIFE] \notin Final
                 THEN [Cancel(s2, LIFE) EXCEPT !.cancelledIn = PhaseOfPc(lifePc)]
                 ELSE s2
       IN  Set(MainAExit(s3))

\* a task of _run's group failed: CancelledError is thrown into asyncio.wait
MainCancelled ==
    /\ HeadIs(StepH(MAIN)) /\ mainPc = "wait" /\ mustCancel[MAIN]
    /\ Set(MainAExit([Pop(S) EXCEPT !.mustCancel[MAIN] = FALSE]))

\* _run resumes inside "while self._tasks" of TaskGroup.__aexit__
MainExitWake ==
    /\ HeadIs(StepH(MAIN)) /\ mainPc = "exit"
    /\ Set(MainAExit([Pop(S) EXCEPT !.mustCancel[MAIN] = FALSE]))

\* the loop starts an iteration: it runs the handles that are ready now
LoopIterate ==
    /\ ntodo = 0 /\ ready # <<>>
    /\ Set([S EXCEPT !.ntodo = Len(ready)])

Outcomes == {"ok", "failed", "susp"}

Next ==
    \/ LoopIterate
    \/ MainBegin
    \/ MainWake
    \/ MainCancelled
    \/ MainExitWake
    \/ SigStep
    \/ PumpStep
    \/ Signal
    \/ SigHandler
    \/ LifeBegin
    \/ StartWake
    \/ StartCancelled
    \/ StartExitWake
    \/ RunWake
    \/ RunCancelled
    \/ RunExitWake
    \/ StopWake
    \/ StopCancelled
    \/ StopExitWake
    \/ \E x \in CompTasks, o \in Outcomes : TaskBegin(x, o)
    \/ \E x \in CompTasks : BarrierBegin(x)
    \/ \E x \in CompTasks, o \in Outcomes \ {"susp"} : TaskResume(x, o)
    \/ \E x \in CompTasks : TaskCancelled(x)
    \/ \E x \in CompTasks : IOComplete(x)
    \/ \E x \in Tasks : TaskCallbacks(x)

Spec == Init /\ [][Next]_vars

TypeOK ==
    /\ st \in [Tasks -> {"none", "new", "ready", "susp"} \cup Final]
    /\ ntodo \in 0..Len(ready)
    /\ (st[LIFE] = "new" => ~mustCancel[LIFE])

----------------------------------------------------------------------------
\* Target (src/overrun/target.py): one target, the capability lists built by
\* __post_init__ and the methods start, run, stop and reset, each executed by
\* one task on the event loop.

MaxComponents == 3

\* the component classes of tests/test_target.py: Base, IsStartable, IsRunable,
\* IsStopable, IsResetable, IsStartableAndStoppable
ComponentKinds == {None, StartOnly, {"run"}, {"stop"}, {"reset"}, {"start", "stop"}}

ComponentLists == UNION {[1..n -> ComponentKinds] : n \in 0..MaxComponents}

Methods == {"start", "run", "stop", "reset"}

EmptyLists == [startable |-> <<>>, runable |-> <<>>, stopable |-> <<>>, resetable |-> <<>>]

\* a partition that puts a component into the list of its first capability only
RECURSIVE post_init_elif(_, _, _)
post_init_elif(comps, i, lists) ==
    IF i > Len(comps) THEN lists
    ELSE post_init_elif(comps, i + 1,
            IF "start" \in comps[i] THEN [lists EXCEPT !.startable = Append(@, i)]
            ELSE IF "run" \in comps[i] THEN [lists EXCEPT !.runable = Append(@, i)]
            ELSE IF "stop" \in comps[i] THEN [lists EXCEPT !.stopable = Append(@, i)]
            ELSE IF "reset" \in comps[i] THEN [lists EXCEPT !.resetable = Append(@, i)]
            ELSE lists)

\* Target.__post_init__: "for component in self.components", from component i on
RECURSIVE post_init(_, _, _)
post_init(comps, i, lists) ==
    IF i > Len(comps) THEN lists
    ELSE LET l1 == IF "start" \in comps[i] THEN [lists EXCEPT !.startable = Append(@, i)] ELSE lists
             l2 == IF "run" \in comps[i] THEN [l1 EXCEPT !.runable = Append(@, i)] ELSE l1
             l3 == IF "stop" \in comps[i] THEN [l2 EXCEPT !.stopable = Append(@, i)] ELSE l2
             l4 == IF "reset" \in comps[i] THEN [l3 EXCEPT !.resetable = Append(@, i)] ELSE l3
         IN  post_init(comps, i + 1, l4)

\* Target(name, components): the target after construction, no method called yet
TargetInit ==
    /\ RuntimeInit({Scenario(Graph({}, {}), Caps(None, None, None), {})}, <<>>)
    /\ RegistryIdle
    /\ ConfigIdle
    /\ ComponentsIdle
    /\ \E cs \in ComponentLists :
          LET lists == post_init(cs, 1, EmptyLists)
          IN  /\ components = cs
              /\ t_startable = lists.startable /\ t_runable = lists.runable
              /\ t_stopable = lists.stopable /\ t_resetable = lists.resetable
              /\ cst = [i \in 1..Len(cs) |-> "none"]
    /\ call = "none" /\ pos = 1 /\ compMust = {}
    /\ pst = "none" /\ pMust = FALSE
    /\ groupTasks = {} /\ groupAborting = FALSE /\ groupErrors = FALSE /\ groupProp = FALSE
    /\ invoked = <<>> /\ result = "none"

\* the target's state as one record, with the event loop's queue
TS == [ ready |-> ready, ntodo |-> ntodo, call |-> call, pos |-> pos, cst |-> cst,
       compMust |-> compMust, pst |-> pst, pMust |-> pMust, groupTasks |-> groupTasks,
       groupAborting |-> groupAborting, groupErrors |-> groupErrors, groupProp |-> groupProp,
       invoked |-> invoked, result |-> result ]

SetT(t) ==
    /\ ready' = t.ready /\ ntodo' = t.ntodo
    /\ call' = t.call /\ pos' = t.pos /\ cst' = t.cst /\ compMust' = t.compMust
    /\ pst' = t.pst /\ pMust' = t.pMust
    /\ groupTasks' = t.groupTasks /\ groupAborting' = t.groupAborting
    /\ groupErrors' = t.groupErrors /\ groupProp' = t.groupProp
    /\ invoked' = t.invoked /\ result' = t.result
    /\ UNCHANGED << components, t_startable, t_runable, t_stopable, t_resetable >>
    /\ UNCHANGED runtimeVars
    /\ UNCHANGED registryVars
    /\ UNCHANGED configVars
    /\ UNCHANGED componentVars

ParentH    == StepH(<<"top", "target">>)
CompH(i)   == StepH(<<"comp", i>>)
CompCbH(i) == CbH(<<"comp", i>>)

Sequential == {"start", "stop"}

\* a Target.start that walks its list backwards
CallOrderStartReversed(m) ==
    CASE m = "start" -> Reverse(t_startable)
      [] m = "run"   -> t_runable
      [] m = "stop"  -> Reverse(t_stopable)
      [] OTHER       -> t_resetable

\* a Target.stop that forgets reversed()
CallOrderStopForward(m) ==
    CASE m = "start" -> t_startable
      [] m = "run"   -> t_runable
      [] m = "stop"  -> t_stopable
      [] OTHER       -> t_resetable

\* the list each method iterates: lines 75, 80, 84 and 89
CallOrder(m) ==
    CASE m = "start" -> t_startable
      [] m = "run"   -> t_runable
      [] m = "stop"  -> Reverse(t_stopable)
      [] OTHER       -> t_resetable

\* Task.cancel() on a component task of the TaskGroup
CompCancel(t, i) ==
    IF t.cst[i] = "susp"
    THEN [t EXCEPT !.cst[i] = "ready", !.compMust = @ \cup {i}, !.ready = Append(@, CompH(i))]
    ELSE IF t.cst[i] \in {"new", "ready"}
    THEN [t EXCEPT !.compMust = @ \cup {i}]
    ELSE t

RECURSIVE CompCancelAll(_, _)
CompCancelAll(t, q) == IF q = <<>> THEN t ELSE CompCancelAll(CompCancel(t, Head(q)), Tail(q))

\* TaskGroup._abort of the group of Target.run / Target.reset
GroupAbort(t, ord) == CompCancelAll([t EXCEPT !.groupAborting = TRUE], ord)

\* Task.cancel() on the task that executes the Target method
ParentCancel(t) ==
    IF t.pst = "susp"
    THEN [t EXCEPT !.pst = "ready", !.pMust = TRUE, !.ready = Append(@, ParentH)]
    ELSE IF t.pst \in {"new", "ready"}
    THEN [t EXCEPT !.pMust = TRUE]
    ELSE t

ParentWake(t) ==
    IF t.pst = "susp" THEN [t EXCEPT !.pst = "ready", !.ready = Append(@, ParentH)] ELSE t

CompFinish(t, i, o) ==
    [t EXCEPT !.cst[i] = o, !.compMust = @ \ {i}, !.ready = Append(@, CompCbH(i))]

\* a TaskGroup that raises as soon as one task failed
GroupExitEager(tasksLeft, err, prop) ==
    IF err THEN "failed"
    ELSE IF tasksLeft # {} THEN "none"
    ELSE IF prop THEN "cancelled" ELSE "ok"

\* TaskGroup.__aexit__: wait while tasks are left, then raise the errors, the
\* cancellation, or return
GroupExit(tasksLeft, err, prop) ==
    IF tasksLeft # {} THEN "none"
    ELSE IF err THEN "failed"
    ELSE IF prop THEN "cancelled" ELSE "ok"

GroupAExit(t) ==
    LET r == GroupExit(t.groupTasks, t.groupErrors, t.groupProp)
    IN  IF r = "none" THEN [t EXCEPT !.pst = "susp"]
        ELSE [t EXCEPT !.pst = "done", !.result = r]

CompLive(t) == {i \in t.groupTasks : t.cst[i] \in {"new", "susp", "ready"}}

\* the runtime creates the task of a Target method: tg.create_task(target.start(...))
Call(m) ==
    /\ call = "none" /\ ntodo = 0
    /\ SetT([TS EXCEPT !.call = m, !.pst = "new", !.ready = Append(@, ParentH)])

\* first step of the task.  start / stop: the for loop is entered;
\* run / reset: every component's task is created, then __aexit__ is awaited
ParentBegin ==
    /\ HeadIs(ParentH) /\ pst = "new"
    /\ LET t0 == [TS EXCEPT !.ready = Tail(@), !.ntodo = @ - 1]
           q  == CallOrder(call)
           RECURSIVE Create(_, _)
           Create(t, l) ==
               IF l = <<>> THEN t
               ELSE Create([t EXCEPT !.cst[Head(l)] = "new",
                                     !.ready = Append(@, CompH(Head(l))),
                                     !.groupTasks = @ \cup {Head(l)}], Tail(l))
       IN  SetT(IF pMust THEN [t0 EXCEPT !.pMust = FALSE, !.pst = "done", !.result = "cancelled"]
                ELSE IF call \in Sequential THEN [t0 EXCEPT !.pst = "running", !.pos = 1]
                ELSE GroupAExit(Create(t0, q)))

\* start / stop: the for loop takes the next component and awaits its method,
\* or ends
SeqBegin ==
    /\ call \in Sequential /\ pst = "running"
    /\ \A i \in DOMAIN cst : cst[i] \notin {"running", "resumed"}
    /\ LET q == CallOrder(call)
       IN  SetT(IF pos > Len(q) THEN [TS EXCEPT !.pst = "done", !.result = "ok"]
                ELSE [TS EXCEPT !.cst[q[pos]] = "running", !.invoked = Append(@, q[pos])])

\* start / stop: the awaited method returns, raises, or suspends on I/O
SeqEnd(i, o) ==
    /\ call \in Sequential /\ pst = "running" /\ i \in DOMAIN cst
    /\ cst[i] \in {"running", "resumed"}
    /\ cst[i] = "resumed" => o # "susp"
    /\ SetT(CASE o = "ok"     -> [TS EXCEPT !.cst[i] = "ok", !.pos = @ + 1]
              [] o = "failed" -> [TS EXCEPT !.cst[i] = "failed", !.pst = "done", !.result = "failed"]
              [] OTHER        -> [TS EXCEPT !.cst[i] = "susp", !.pst = "susp"])

\* start / stop: the task resumes inside the component's method
SeqResume ==
    /\ call \in Sequential /\ HeadIs(ParentH) /\ pst = "ready"
    /\ LET t0 == [TS EXCEPT !.ready = Tail(@), !.ntodo = @ - 1]
           i  == CHOOSE j \in DOMAIN cst : cst[j] = "susp"
       IN  SetT(IF pMust
                THEN [t0 EXCEPT !.pMust = FALSE, !.cst[i] = "cancelled",
                                !.pst = "done", !.result = "cancelled"]
                ELSE [t0 EXCEPT !.cst[i] = "resumed", !.pst = "running"])

\* the I/O a component's method awaits completes
CompIO(i) ==
    /\ ntodo = 0 /\ i \in DOMAIN cst /\ cst[i] = "susp" /\ pst # "running"
    /\ call \in Sequential => pst = "susp"
    /\ SetT(IF call \in Sequential THEN ParentWake(TS)
            ELSE [TS EXCEPT !.cst[i] = "ready", !.ready = Append(@, CompH(i))])

\* run / reset: a step of a component's task
CompStep(i, o) ==
    /\ i \in DOMAIN cst /\ HeadIs(CompH(i))
    /\ LET t0 == [TS EXCEPT !.ready = Tail(@), !.ntodo = @ - 1]
       IN  IF i \in compMust THEN o = "ok" /\ SetT(CompFinish(t0, i, "cancelled"))
           ELSE IF cst[i] = "new"
           THEN LET t1 == [t0 EXCEPT !.invoked = Append(@, i)]
                IN  SetT(IF o = "susp" THEN [t1 EXCEPT !.cst[i] = "susp"] ELSE CompFinish(t1, i, o))
           ELSE o # "susp" /\ SetT(CompFinish(t0, i, o))

\* run / reset: TaskGroup._on_task_done of a component's task
CompCallback(i) ==
    /\ i \in DOMAIN cst /\ HeadIs(CompCbH(i))
    /\ \E ord \in PermsOf(CompLive(TS) \ {i}) :
          LET t0 == [TS EXCEPT !.ready = Tail(@), !.ntodo = @ - 1, !.groupTasks = @ \ {i}]
              t1 == IF t0.groupTasks = {} THEN ParentWake(t0) ELSE t0
          IN  SetT(IF cst[i] # "failed" THEN t1
                   ELSE IF t1.pst = "done" THEN [t1 EXCEPT !.groupErrors = TRUE]
                   ELSE IF ~t1.groupAborting
                   THEN ParentCancel(GroupAbort([t1 EXCEPT !.groupErrors = TRUE], ord))
                   ELSE [t1 EXCEPT !.groupErrors = TRUE])

\* run / reset: the task resumes inside "while self._tasks" of __aexit__
ParentStep ==
    /\ call \notin Sequential /\ HeadIs(ParentH) /\ pst = "ready"
    /\ \E ord \in PermsOf(CompLive(TS)) :
          LET t0 == [TS EXCEPT !.ready = Tail(@), !.ntodo = @ - 1, !.pMust = FALSE]
              t1 == IF pMust /\ ~groupAborting
                    THEN GroupAbort([t0 EXCEPT !.groupProp = TRUE], ord)
                    ELSE t0
          IN  SetT(GroupAExit(t1))

\* the runtime cancels the task of the Target method (TaskGroup._abort of its phase)
CancelCall ==
    /\ ntodo = 0 /\ call # "none" /\ pst \in {"new", "susp", "ready"} /\ ~pMust
    /\ ~groupAborting
    /\ SetT(ParentCancel(TS))

TargetNext ==
    \/ LoopIterate
    \/ \E m \in Methods : Call(m)
    \/ ParentBegin
    \/ SeqBegin
    \/ \E i \in 1..MaxComponents, o \in Outcomes : SeqEnd(i, o)
    \/ SeqResume
    \/ \E i \in 1..MaxComponents : CompIO(i)
    \/ \E i \in 1..MaxComponents, o \in Outcomes : CompStep(i, o)
    \/ \E i \in 1..MaxComponents : CompCallback(i)
    \/ ParentStep
    \/ CancelCall

TargetSpec == TargetInit /\ [][TargetNext]_vars

----------------------------------------------------------------------------
\* Registry (src/overrun/registry.py): the .toml files of the scanned target
\* directories are loaded, named, ordered by their dependencies and built
\* into definitions.

MaxFiles == 3

Names == {"x", "y", "z"}

\* a .toml file by what loading it does: "ok" parses and validates to a
\* document with a final name (target.name, or the file's stem) and a
\* dependency list; "schema" parses but fails validation; "syntax" is not TOML
TargetFiles ==
    [kind : {"ok"}, name : Names, dependencies : {<<>>, <<"x">>, <<"y">>, <<"z">>}]
        \cup {[kind |-> "ok", name |-> "x", dependencies |-> <<"y", "z">>]}
        \cup {[kind |-> k, name |-> "", dependencies |-> <<>>] : k \in {"schema", "syntax"}}

FileLists == UNION {[1..n -> TargetFiles] : n \in 0..MaxFiles}

\* Config.target_directories of the tree that is scanned: project "p" with the
\* target directory p/t1, and project "s" whose target directory is s itself
ScannedTargetDirectories ==
    [proj \in {<<"p">>, <<"s">>} |-> IF proj = <<"p">> THEN {<<"p", "t1">>} ELSE {<<"s">>}]

\* the directory whose listing yields the file: the first files lie in p/t1,
\* the last one in s
DirOfFile(path) == IF path < MaxFiles THEN <<"p", "t1">> ELSE <<"s">>

\* attempt_init is about to be called with a Config whose target directories
\* hold the files, or with a ConfigFailed
RegistryInit ==
    /\ RuntimeInit({Scenario(Graph({}, {}), Caps(None, None, None), {})}, <<>>)
    /\ TargetIdle
    /\ ConfigIdle
    /\ ComponentsIdle
    /\ config_ok \in BOOLEAN
    /\ files \in FileLists
    /\ ~config_ok => files = <<>>
    /\ regPc = "start" /\ scanned = 0
    /\ valid_targets = <<>> /\ invalid_targets = <<>>
    /\ documents_named = <<>> /\ ready_nodes = <<>> /\ finished = {}
    /\ definitions = <<>> /\ buildResult = "none" /\ cycle_nodes = <<>>
    /\ regOutcome = "none" /\ requested = "none"

RegFrame == UNCHANGED << ready, ntodo, runtimeVars, targetVars, configVars, componentVars >>

\* q with the elements of ns it does not hold yet, in their order
RECURSIVE AppendNew(_, _)
AppendNew(q, ns) ==
    IF ns = <<>> THEN q
    ELSE AppendNew(IF Head(ns) \in Range(q) THEN q ELSE Append(q, Head(ns)), Tail(ns))

\* the dict comprehension: an item of a name already present takes its place
RECURSIVE NameDocuments(_, _)
NameDocuments(docs, d) ==
    IF docs = <<>> THEN d
    ELSE LET doc == Head(docs)
         IN  NameDocuments(Tail(docs),
                 [n \in DOMAIN d \cup {doc.name} |-> IF n = doc.name THEN doc ELSE d[n]])

\* the keys of documents_named in the dict's order: by first insertion
Keys == AppendNew(<<>>, [i \in DOMAIN valid_targets |-> valid_targets[i].name])

\* graph.add(name, *dependencies) for every item: the sorter's nodes in the
\* order they were first added, a dependency nobody defines included
RECURSIVE AddAll(_, _)
AddAll(keys, q) ==
    IF keys = <<>> THEN q
    ELSE AddAll(Tail(keys), AppendNew(q, <<Head(keys)>> \o documents_named[Head(keys)].dependencies))

node2info == AddAll(Keys, <<>>)

Predecessors(n) ==
    IF n \in DOMAIN documents_named THEN Range(documents_named[n].dependencies) ELSE {}

\* the nodes that name n as a dependency, in the order of the add calls
Successors(n) ==
    SelectSeq(Keys, LAMBDA m : n \in Range(documents_named[m].dependencies))

IndexOf(q, x) == CHOOSE i \in 1..Len(q) : q[i] = x /\ \A j \in 1..(i - 1) : q[j] # x

\* TopologicalSorter._find_cycle: a depth-first walk along the successors
RECURSIVE Visit(_, _, _), VisitEach(_, _, _)
Visit(node, stack, seen) ==
    IF node \in seen
    THEN [cycle |-> IF node \in Range(stack)
                    THEN SubSeq(stack, IndexOf(stack, node), Len(stack)) \o <<node>>
                    ELSE <<>>,
          seen |-> seen]
    ELSE VisitEach(Successors(node), Append(stack, node), seen \cup {node})

VisitEach(nodes, stack, seen) ==
    IF nodes = <<>> THEN [cycle |-> <<>>, seen |-> seen]
    ELSE LET r == Visit(Head(nodes), stack, seen)
         IN  IF r.cycle # <<>> THEN r ELSE VisitEach(Tail(nodes), stack, r.seen)

\* the walk started from the first node only
find_cycle_first ==
    IF node2info = <<>> THEN <<>> ELSE Visit(Head(node2info), <<>>, {}).cycle

find_cycle == VisitEach(node2info, <<>>, {}).cycle

\* every successor of a finished node is ready at once
NewlyReadyEager(name, fin) == Successors(name)

\* done(name): the successors whose last predecessor has now finished
NewlyReady(name, fin) ==
    SelectSeq(Successors(name), LAMBDA m : Predecessors(m) \subseteq fin)

\* the body of "for name in graph.get_ready()", for the names of one batch:
\* done, the document's lookup, the definition with its dependencies' lookup
RECURSIVE BuildEach(_, _)
BuildEach(batch, b) ==
    IF batch = <<>> \/ b.error THEN b
    ELSE LET name  == Head(batch)
             fin   == b.finished \cup {name}
             rdy   == b.ready_nodes \o NewlyReady(name, fin)
             built == {b.definitions[i].name : i \in DOMAIN b.definitions}
         IN  IF name \notin DOMAIN documents_named
                \/ ~(Range(documents_named[name].dependencies) \subseteq built)
             THEN [b EXCEPT !.finished = fin, !.ready_nodes = rdy, !.error = TRUE]
             ELSE BuildEach(Tail(batch),
                      [b EXCEPT !.finished = fin, !.ready_nodes = rdy,
                                !.definitions = Append(@,
                                    [name |-> name, path |-> documents_named[name].path,
                                     dependencies |-> Range(documents_named[name].dependencies)])])

\* attempt_init up to the loading of the files
AttemptInit ==
    /\ regPc = "start"
    /\ IF config_ok
       THEN regPc' = "load" /\ regOutcome' = regOutcome
       ELSE regPc' = "end" /\ regOutcome' = "RegistryFailed:NoConfig"
    /\ UNCHANGED << config_ok, files, scanned, valid_targets, invalid_targets,
                    documents_named, ready_nodes, finished, definitions, buildResult,
                    cycle_nodes, requested >>
    /\ RegFrame

\* one turn of the loops of _deserialize_target_documents and _search_target_dir
LoadFile ==
    /\ regPc = "load" /\ scanned < Len(files)
    /\ LET path == scanned + 1
           file == files[path]
       IN  /\ scanned' = path
           /\ valid_targets' =
                 IF file.kind = "ok"
                 THEN Append(valid_targets, [path |-> path, project |-> DirOfFile(path),
                                             name |-> file.name,
                                             dependencies |-> file.dependencies])
                 ELSE valid_targets
           /\ invalid_targets' =
                 IF file.kind = "schema" THEN Append(invalid_targets, <<path, "msg">>)
                 ELSE invalid_targets
           /\ IF file.kind = "syntax"
              THEN regPc' = "end" /\ regOutcome' = "raised:TOMLDecodeError"
              ELSE regPc' = regPc /\ regOutcome' = regOutcome
    /\ UNCHANGED << config_ok, files, documents_named, ready_nodes, finished,
                    definitions, buildResult, cycle_nodes, requested >>
    /\ RegFrame

\* the files are exhausted; _build_target_definitions names the documents
NameStep ==
    /\ regPc = "load" /\ scanned = Len(files)
    /\ documents_named' = NameDocuments(valid_targets, <<>>)
    /\ regPc' = "graph"
    /\ UNCHANGED << config_ok, files, scanned, valid_targets, invalid_targets,
                    ready_nodes, finished, definitions, buildResult, cycle_nodes,
                    regOutcome, requested >>
    /\ RegFrame

\* the graph is filled and prepared; a CycleError becomes the returned failure
Prepare ==
    /\ regPc = "graph"
    /\ ready_nodes' = SelectSeq(node2info, LAMBDA n : Predecessors(n) = {})
    /\ IF find_cycle # <<>>
       THEN /\ cycle_nodes' = find_cycle
            /\ buildResult' = "RegistryFailed:DependencyCycle"
            /\ regPc' = "return"
       ELSE /\ cycle_nodes' = cycle_nodes
            /\ buildResult' = buildResult
            /\ regPc' = "build"
    /\ UNCHANGED << config_ok, files, scanned, valid_targets, invalid_targets,
                    documents_named, finished, definitions, regOutcome, requested >>
    /\ RegFrame

\* one turn of "while graph.is_active()": a batch of get_ready, or the return
BuildReady ==
    /\ regPc = "build"
    /\ IF ready_nodes = <<>>
       THEN /\ buildResult' = "definitions" /\ regPc' = "return"
            /\ UNCHANGED << ready_nodes, finished, definitions, regOutcome >>
       ELSE LET b == BuildEach(ready_nodes,
                         [ready_nodes |-> <<>>, finished |-> finished,
                          definitions |-> definitions, error |-> FALSE])
            IN  /\ ready_nodes' = b.ready_nodes
                /\ finished' = b.finished
                /\ definitions' = b.definitions
                /\ IF b.error
                   THEN /\ buildResult' = "raised:KeyError"
                        /\ regOutcome' = "raised:KeyError"
                        /\ regPc' = "end"
                   ELSE UNCHANGED << buildResult, regOutcome, regPc >>
    /\ UNCHANGED << config_ok, files, scanned, valid_targets, invalid_targets,
                    documents_named, cycle_nodes, requested >>
    /\ RegFrame

\* attempt_init after _build_target_definitions has returned
AttemptEnd ==
    /\ regPc = "return"
    /\ regOutcome' = "raised:NotImplementedError"
    /\ regPc' = "end"
    /\ UNCHANGED << config_ok, files, scanned, valid_targets, invalid_targets,
                    documents_named, ready_nodes, finished, definitions, buildResult,
                    cycle_nodes, requested >>
    /\ RegFrame

\* Runtime.run(target_name=r) asks the registry for the graph of a root
RunRoot(r) ==
    /\ regPc = "end" /\ buildResult = "definitions" /\ requested = "none"
    /\ requested' = r
    /\ regOutcome' = "raised:AttributeError"
    /\ UNCHANGED << config_ok, files, regPc, scanned, valid_targets, invalid_targets,
                    documents_named, ready_nodes, finished, definitions, buildResult,
                    cycle_nodes >>
    /\ RegFrame

RegistryNext ==
    \/ AttemptInit
    \/ LoadFile
    \/ NameStep
    \/ Prepare
    \/ BuildReady
    \/ AttemptEnd
    \/ \E r \in Names : RunRoot(r)

RegistrySpec == RegistryInit /\ [][RegistryNext]_vars

----------------------------------------------------------------------------
\* Config (src/overrun/config.py): the current working project, its sibling
\* projects and the target directories of the projects, found on a small
\* filesystem.

MaxPatterns == 2

\* the directories, each by its components below the filesystem root
ROOT == <<>>
W    == <<"w">>
P    == <<"w", "p">>
Dirs == {ROOT, W, P, <<"w", "p", "d">>, <<"w", "s1">>, <<"w", "s2">>}

Parent(d) == IF d = ROOT THEN ROOT ELSE SubSeq(d, 1, Len(d) - 1)

\* the children a directory may hold that a pattern of projects may name
Marks == {".overrun", ".git"}
MarkSets == {{}, {".overrun"}, {".git"}}
IndicatorLists == {<<".overrun">>, <<".git", ".overrun">>}

SiblingPatterns == {"../*", "../s1", "/w/*", "/w/s2"}
TargetPatterns  == {"t1", "t2"}
Kinds == {"dir", "file", "missing"}

PatternLists(ps) == UNION {[1..n -> ps] : n \in 0..MaxPatterns}

\* a path: the directory it leads to and how it is spelled; <<>> is the
\* canonical spelling, what Path.resolve() returns
Canonical(d) == [dir |-> d, spell |-> <<>>]
Resolve(p)   == Canonical(p.dir)

\* what the search for the configuration file reads: OVERRUN_CONFIG (unset or
\* empty, naming an existing file, naming a missing one), the config_file
\* argument (None, a Path that exists, a Path that does not, an open stream)
\* and whether ~/.config/overrun/config.toml exists
EnvSettings == {"unset", "exists", "missing"}
FileArguments == {"None", "Path", "MissingPath", "Stream"}
FileInputs == [env : EnvSettings, arg : FileArguments, default : BOOLEAN]
NoFile == [env |-> "unset", arg |-> "None", default |-> FALSE]

ConfigStart ==
    /\ cfgPc = "file" /\ cwp = Canonical(ROOT) /\ config_source = "none"
    /\ sibling_projects = {} /\ projects = {} /\ target_directories = <<>>
    /\ cfgOutcome = "none"

\* Config.attempt_init is about to run; the inputs are drawn in four
\* families, each varying what one of its four searches reads
ConfigInit ==
    /\ RuntimeInit({Scenario(Graph({}, {}), Caps(None, None, None), {})}, <<>>)
    /\ TargetIdle
    /\ RegistryIdle
    /\ ComponentsIdle
    /\ ConfigStart
    /\ indicators \in IndicatorLists
    /\ \/ /\ pwd \in Dirs
          /\ file_in = NoFile
          /\ marks \in [Dirs -> MarkSets]
          /\ link = ROOT
          /\ sibling_patterns = <<"../*">>
          /\ target_patterns = <<"t1">>
          /\ tkind = [d \in Dirs |-> [t \in TargetPatterns |-> "dir"]]
       \/ /\ pwd \in {P, <<"w", "p", "d">>}
          /\ file_in = NoFile
          /\ \E m \in [{<<"w", "s1">>, <<"w", "s2">>} -> MarkSets] :
                marks = [d \in Dirs |-> IF d \in DOMAIN m THEN m[d]
                                        ELSE IF d = P THEN {".overrun"} ELSE {}]
          /\ link \in {ROOT, P, <<"w", "s1">>}
          /\ sibling_patterns \in PatternLists(SiblingPatterns)
          /\ target_patterns = <<"t1">>
          /\ tkind = [d \in Dirs |-> [t \in TargetPatterns |-> "dir"]]
       \/ /\ pwd = P
          /\ file_in = NoFile
          /\ marks = [d \in Dirs |-> IF Len(d) = 2 THEN {".overrun"} ELSE {}]
          /\ link = ROOT
          /\ sibling_patterns = <<"../*">>
          /\ target_patterns \in PatternLists(TargetPatterns)
          /\ \E k \in [{d \in Dirs : Len(d) = 2} -> [TargetPatterns -> Kinds]] :
                tkind = [d \in Dirs |-> IF d \in DOMAIN k THEN k[d]
                                        ELSE [t \in TargetPatterns |-> "missing"]]
       \/ /\ pwd \in {P, ROOT}
          /\ file_in \in FileInputs
          /\ marks = [d \in Dirs |-> IF d = P THEN {".overrun"} ELSE {}]
          /\ link = ROOT
          /\ sibling_patterns = <<"../*">>
          /\ target_patterns = <<"t1">>
          /\ tkind = [d \in Dirs |-> [t \in TargetPatterns |-> "dir"]]

CfgFrame == UNCHANGED << ready, ntodo, runtimeVars, targetVars, registryVars, componentVars >>

CfgInputs == << pwd, marks, link, indicators, sibling_patterns, target_patterns, tkind,
               file_in >>

\* _config_file_search: the environment first, then the explicit path, then
\* the default file; the result names the file found, "None" or the failure
config_file_search(env, explicit_path, default) ==
    IF env # "unset"
    THEN IF env = "exists" THEN "env" ELSE "ConfigFailed:EnvPathNotFound"
    ELSE IF explicit_path # "None"
    THEN IF explicit_path = "Path" THEN "explicit" ELSE "ConfigFailed:ExplicitPathNotFound"
    ELSE IF default THEN "default_file" ELSE "None"

\* match config_file: the search is made for a Path only, None passes and
\* anything else is read as a stream
MatchConfigFile(f) ==
    CASE f.arg \in {"Path", "MissingPath"} -> config_file_search(f.env, f.arg, f.default)
      [] f.arg = "None" -> "None"
      [] OTHER -> "Stream"

ConfigFailures ==
    {"ConfigFailed:EnvPathNotFound", "ConfigFailed:ExplicitPathNotFound",
     "ConfigFailed:NotInProject"}

\* _has_project_indicator: some configured indicator exists below d
HasProjectIndicator(d) == \E i \in 1..Len(indicators) : indicators[i] \in marks[d]

\* the walk that gives up at the root without looking into it
RECURSIVE FindBelowRoot(_)
FindBelowRoot(path) ==
    IF path = ROOT THEN "None"
    ELSE IF HasProjectIndicator(path) THEN path
    ELSE FindBelowRoot(Parent(path))

\* _recursive_find_project: from path upwards, the root looked into last
RECURSIVE recursive_find_project(_)
recursive_find_project(path) ==
    IF path # ROOT
    THEN IF HasProjectIndicator(path) THEN path ELSE recursive_find_project(Parent(path))
    ELSE IF HasProjectIndicator(ROOT) THEN ROOT ELSE "None"

\* the names a listing of d returns: its subdirectories, and in W the
\* symbolic link "l" when there is one (link is the directory it leads to)
Entries(d) ==
    {c[Len(c)] : c \in {x \in Dirs : x # ROOT /\ Parent(x) = d}}
        \cup (IF d = W /\ link # ROOT THEN {"l"} ELSE {})

EntryDir(d, e) == IF e = "l" THEN link ELSE Append(d, e)

\* cwp.glob(pattern) for a relative pattern: paths spelled through ".."
RelativeGlob(pattern, from) ==
    LET up == Parent(from)
    IN  CASE pattern = "../*"  -> {[dir |-> EntryDir(up, e), spell |-> <<"..", e>>] : e \in Entries(up)}
          [] pattern = "../s1" -> {[dir |-> EntryDir(up, e), spell |-> <<"..", e>>] : e \in Entries(up) \cap {"s1"}}
          [] OTHER -> {}

\* glob.glob(pattern) for an absolute pattern: paths spelled from the root
AbsoluteGlob(pattern) ==
    CASE pattern = "/w/*"  -> {[dir |-> EntryDir(W, e), spell |-> <<"/w", e>>] : e \in Entries(W)}
      [] pattern = "/w/s2" -> {[dir |-> <<"w", "s2">>, spell |-> <<"/w", "s2">>]}
      [] OTHER -> {}

IsAbsolute(pattern) == pattern \in {"/w/*", "/w/s2"}

sibling_absolute_expansions(pattern, c) ==
    {path \in {Resolve(p) : p \in AbsoluteGlob(pattern)} : path # c}

\* the expansions compared with the project as they are spelled
RelativeExpansionsAsSpelled(pattern, c) ==
    {path \in RelativeGlob(pattern, c.dir) : path # c}

sibling_relative_expansions(pattern, c) ==
    {path \in RelativeGlob(pattern, c.dir) : Resolve(path) # c}

\* the loop of _sibling_projects over the patterns
RECURSIVE PathsToCheck(_, _, _)
PathsToCheck(patterns, c, acc) ==
    IF patterns = <<>> THEN acc
    ELSE PathsToCheck(Tail(patterns), c,
             acc \cup (IF IsAbsolute(Head(patterns))
                       THEN sibling_absolute_expansions(Head(patterns), c)
                       ELSE sibling_relative_expansions(Head(patterns), c)))

SiblingProjectsOf(patterns, c) ==
    {Resolve(path) : path \in {q \in PathsToCheck(patterns, c, {}) : HasProjectIndicator(q.dir)}}

\* project / pattern, and what is found there
Join(project, t) == [dir |-> Append(project.dir, t), spell |-> <<"join">>]

\* Path.exists() of the joined path
Exists(project, t) == tkind[project.dir][t] # "missing"

\* Path.is_dir() of the joined path
IsDir(project, t) == tkind[project.dir][t] = "dir"

\* _target_directories: the pairs kept, grouped by project
TargetDirsOf(prjs, patterns) ==
    LET target_dirs_set ==
            {pr \in {<<p, Resolve(Join(p, t))>> : p \in prjs, t \in Range(patterns)} :
                \E t \in Range(patterns) : pr[2] = Resolve(Join(pr[1], t)) /\ IsDir(pr[1], t)}
    IN  [p \in {pr[1] : pr \in target_dirs_set} |->
            {pr[2] : pr \in {x \in target_dirs_set : x[1] = p}}]

\* _cwp: the project found from pwd, or the NotInProject failure
\* attempt_init up to the options: the configuration file is chosen and read
ConfigFile ==
    /\ cfgPc = "file"
    /\ LET found == MatchConfigFile(file_in)
       IN  IF found \in ConfigFailures
           THEN cfgPc' = "end" /\ cfgOutcome' = found /\ config_source' = config_source
           ELSE /\ cfgPc' = "cwp" /\ cfgOutcome' = cfgOutcome
                /\ config_source' = IF found = "None" THEN "defaults" ELSE found
    /\ UNCHANGED << cwp, sibling_projects, projects, target_directories >>
    /\ UNCHANGED CfgInputs
    /\ CfgFrame

Cwp ==
    /\ cfgPc = "cwp"
    /\ LET found == recursive_find_project(pwd)
       IN  IF found = "None"
           THEN cfgPc' = "end" /\ cfgOutcome' = "ConfigFailed:NotInProject" /\ cwp' = cwp
           ELSE cfgPc' = "siblings" /\ cfgOutcome' = cfgOutcome /\ cwp' = Canonical(found)
    /\ UNCHANGED << sibling_projects, projects, target_directories, config_source >>
    /\ UNCHANGED CfgInputs
    /\ CfgFrame

\* _sibling_projects, and the projects of line 120
Siblings ==
    /\ cfgPc = "siblings"
    /\ sibling_projects' = SiblingProjectsOf(sibling_patterns, cwp)
    /\ projects' = {cwp} \cup sibling_projects'
    /\ cfgPc' = "targets"
    /\ UNCHANGED << cwp, target_directories, cfgOutcome, config_source >>
    /\ UNCHANGED CfgInputs
    /\ CfgFrame

\* _target_directories, and the Config returned
TargetDirectories ==
    /\ cfgPc = "targets"
    /\ target_directories' = TargetDirsOf(projects, target_patterns)
    /\ cfgOutcome' = "Config"
    /\ cfgPc' = "end"
    /\ UNCHANGED << cwp, sibling_projects, projects, config_source >>
    /\ UNCHANGED CfgInputs
    /\ CfgFrame

ConfigNext ==
    \/ ConfigFile
    \/ Cwp
    \/ Siblings
    \/ TargetDirectories

ConfigSpec == ConfigInit /\ [][ConfigNext]_vars

----------------------------------------------------------------------------
\* Exec (src/overrun/components/exec.py): the component spawns a subprocess in
\* start and ends it in stop; the subprocess exits when it likes, the
\* transport of the event loop learns of the exit in two callbacks, and the
\* timers of asyncio.timeout fire when the loop gets to them.

EnvNames == {"PATH", "X"}

\* the env of the component's arguments: None, or a table setting some names
ExecEnvSettings ==
    {[given |-> FALSE, names |-> {}]} \cup [given : {TRUE}, names : SUBSET EnvNames]

\* lines 56-58: a table that is not empty and lacks PATH gets the PATH of
\* os.environ; the result is what create_subprocess_exec receives as env
PassedEnv(e) ==
    IF ~e.given THEN "None"
    ELSE IF e.names # {} /\ "PATH" \notin e.names THEN "table_with_parent_path"
    ELSE "table"

\* the environment of the spawned subprocess, name by name: the component's
\* own value, the value of the overrun process, or none; env=None inherits
SpawnedEnv(e) ==
    [n \in EnvNames |->
        CASE PassedEnv(e) = "None" -> "parent"
          [] n \in e.names -> "own"
          [] n = "PATH" /\ PassedEnv(e) = "table_with_parent_path" -> "parent"
          [] OTHER -> "unset"]

ExecInit ==
    /\ RuntimeInit({Scenario(Graph({}, {}), Caps(None, None, None), {})}, <<>>)
    /\ TargetIdle
    /\ RegistryIdle
    /\ ConfigIdle
    /\ CatalogIdle
    /\ InvocationIdle
    /\ args_env \in ExecEnvSettings
    /\ child_env = <<>> /\ proc_state = "none" /\ exit_seen = "no"
    /\ execPc = "built" /\ wake = "none" /\ signals = <<>>

ExecFrame ==
    UNCHANGED << ready, ntodo, runtimeVars, targetVars, registryVars, configVars,
                 catalogVars, invocationVars >>

Waits == {"grace_wait", "term_wait"}

\* Process.terminate / Process.kill: ProcessLookupError once the transport is
\* closed, nothing once it knows the return code, else the signal is handed over
SendSignal(seen) ==
    CASE seen = "closed" -> "ProcessLookupError"
      [] seen = "returncode" -> "skipped"
      [] OTHER -> "sent"

\* a stop that sends SIGKILL however its second wait ended
AfterTermWaitBlind(w, seen) == "SIGKILL"

\* lines 122-141: the 5 s wait returned, or timed out and kill() is called
AfterTermWait(w, seen) ==
    IF w = "exit" THEN "return"
    ELSE CASE SendSignal(seen) = "sent" -> "SIGKILL"
           [] SendSignal(seen) = "skipped" -> "return"
           [] OTHER -> "raise"

\* lines 87-121: the 100 ms wait returned, or timed out and terminate() is
\* called; after a ProcessLookupError the second wait returns at once, as it
\* does when the return code is known
AfterGraceWait(w, seen) ==
    IF w = "exit" THEN "return"
    ELSE CASE SendSignal(seen) = "sent" -> "SIGTERM"
           [] OTHER -> "return"

\* Exec.start
ExecStart ==
    /\ execPc = "built"
    /\ child_env' = SpawnedEnv(args_env)
    /\ proc_state' = "running"
    /\ execPc' = "started"
    /\ UNCHANGED << args_env, exit_seen, wake, signals >>
    /\ ExecFrame

\* the subprocess exits with status 0 or not
ProcExit(code) ==
    /\ proc_state = "running"
    /\ proc_state' = code
    /\ UNCHANGED << args_env, child_env, exit_seen, execPc, wake, signals >>
    /\ ExecFrame

\* the transport's _process_exited: the return code becomes known
ProcessExited ==
    /\ proc_state \in {"exit0", "exit1"} /\ exit_seen = "no"
    /\ exit_seen' = "returncode"
    /\ UNCHANGED << args_env, child_env, proc_state, execPc, wake, signals >>
    /\ ExecFrame

\* the transport's _call_connection_lost: the waiters of wait() are woken
\* unless cancelled, and the transport forgets the process
ConnectionLost ==
    /\ exit_seen = "returncode"
    /\ exit_seen' = "closed"
    /\ wake' = IF execPc \in Waits /\ wake = "none" THEN "exit" ELSE wake
    /\ UNCHANGED << args_env, child_env, proc_state, execPc, signals >>
    /\ ExecFrame

\* the timer of asyncio.timeout fires and cancels the task: also when the
\* waiter is done and the task has not resumed yet
TimerFires ==
    /\ execPc \in Waits /\ wake \in {"none", "exit"}
    /\ wake' = "timeout"
    /\ UNCHANGED << args_env, child_env, proc_state, exit_seen, execPc, signals >>
    /\ ExecFrame

\* Exec.stop up to its first suspension: wait() returns at once when the
\* return code is known
StopBegin ==
    /\ execPc = "started"
    /\ execPc' = IF exit_seen = "no" THEN "grace_wait" ELSE "returned"
    /\ UNCHANGED << args_env, child_env, proc_state, exit_seen, wake, signals >>
    /\ ExecFrame

\* stop resumes from the 100 ms wait
GraceEnd ==
    /\ execPc = "grace_wait" /\ wake # "none"
    /\ LET a == AfterGraceWait(wake, exit_seen)
       IN  IF a = "SIGTERM"
           THEN signals' = Append(signals, "SIGTERM") /\ execPc' = "term_wait"
           ELSE signals' = signals /\ execPc' = "returned"
    /\ wake' = "none"
    /\ UNCHANGED << args_env, child_env, proc_state, exit_seen >>
    /\ ExecFrame

\* stop resumes from the 5 s wait
TermEnd ==
    /\ execPc = "term_wait" /\ wake # "none"
    /\ LET a == AfterTermWait(wake, exit_seen)
       IN  /\ signals' = IF a = "SIGKILL" THEN Append(signals, "SIGKILL") ELSE signals
           /\ execPc' = IF a = "raise" THEN "raised" ELSE "returned"
    /\ wake' = "none"
    /\ UNCHANGED << args_env, child_env, proc_state, exit_seen >>
    /\ ExecFrame

StopStep == StopBegin \/ TimerFires \/ GraceEnd \/ TermEnd

ExecNext ==
    \/ ExecStart
    \/ \E code \in {"exit0", "exit1"} : ProcExit(code)
    \/ ProcessExited
    \/ ConnectionLost
    \/ TimerFires
    \/ StopBegin
    \/ GraceEnd
    \/ TermEnd

ExecSpec == ExecInit /\ [][ExecNext]_vars

----------------------------------------------------------------------------
\* Catalog (src/overrun/component.py): register stores a component type
\* under the snake-case form of its name.

MaxName == 3

MaxRegistrations == 2

Upper == {"A"}
Lower == {"b"}
Digit == {"1"}

\* the names of component types: an upper-case letter, then letters and digits
TypeNames ==
    {s \in UNION {[1..n -> Upper \cup Lower \cup Digit] : n \in 1..MaxName} : s[1] \in Upper}

\* two types of one name are two types
ComponentClasses == [name : TypeNames, id : {1, 2}]

\* the end of the run of lower-case letters of s that begins at i
RECURSIVE LowerRun(_, _)
LowerRun(s, i) == IF i <= Len(s) /\ s[i] \in Lower THEN LowerRun(s, i + 1) ELSE i - 1

\* re.sub("(.)([A-Z][a-z]+)", r"\1_\2", s) from position i on: matches are
\* taken leftmost first and do not overlap
RECURSIVE SubWord(_, _)
SubWord(s, i) ==
    IF i > Len(s) THEN <<>>
    ELSE IF i + 2 <= Len(s) /\ s[i + 1] \in Upper /\ s[i + 2] \in Lower
    THEN LET j == LowerRun(s, i + 2)
         IN  <<s[i], "_">> \o SubSeq(s, i + 1, j) \o SubWord(s, j + 1)
    ELSE <<s[i]>> \o SubWord(s, i + 1)

\* re.sub("([a-z0-9])([A-Z])", r"\1_\2", s) from position i on
RECURSIVE SubHump(_, _)
SubHump(s, i) ==
    IF i > Len(s) THEN <<>>
    ELSE IF i + 1 <= Len(s) /\ s[i] \in Lower \cup Digit /\ s[i + 1] \in Upper
    THEN <<s[i], "_", s[i + 1]>> \o SubHump(s, i + 2)
    ELSE <<s[i]>> \o SubHump(s, i + 1)

\* str.lower
ToLower(s) == [i \in DOMAIN s |-> IF s[i] = "A" THEN "a" ELSE s[i]]

\* _camel_case
camel_case(s) == ToLower(SubHump(SubWord(s, 1), 1))

\* COMPONENT_TYPES[name] = cls
StoreType(catalog, name, cls) ==
    [k \in DOMAIN catalog \cup {name} |-> IF k = name THEN cls ELSE catalog[k]]

CatalogInit ==
    /\ RuntimeInit({Scenario(Graph({}, {}), Caps(None, None, None), {})}, <<>>)
    /\ TargetIdle
    /\ RegistryIdle
    /\ ConfigIdle
    /\ ExecIdle
    /\ InvocationIdle
    /\ COMPONENT_TYPES = <<>> /\ registered = <<>>

\* register(cls)
Register(cls) ==
    /\ Len(registered) < MaxRegistrations
    /\ COMPONENT_TYPES' = StoreType(COMPONENT_TYPES, camel_case(cls.name), cls)
    /\ registered' = Append(registered, cls)
    /\ UNCHANGED << ready, ntodo, runtimeVars, targetVars, registryVars, configVars,
                    execVars, invocationVars >>

CatalogNext == \E cls \in ComponentClasses : Register(cls)

CatalogSpec == CatalogInit /\ [][CatalogNext]_vars

----------------------------------------------------------------------------
\* Invocations (src/overrun/runtime.py): run is called again on the Runtime
\* that has completed a run; each call gets a fresh graph of the registry and
\* constructs its own Target objects, the fields of the instance stay.

MaxInvocations == 2

GraphNames == {"a", "b", "c"}

InvocationInit ==
    /\ RuntimeInit({Scenario(Graph({}, {}), Caps(None, None, None), {})}, <<>>)
    /\ TargetIdle
    /\ RegistryIdle
    /\ ConfigIdle
    /\ ExecIdle
    /\ CatalogIdle
    /\ invocation = 0 /\ invPc = "idle" /\ graph_left = {} /\ rt_targets = <<>>
    /\ ran = {} /\ stopped = {}

InvFrame ==
    UNCHANGED << ready, ntodo, runtimeVars, targetVars, registryVars, configVars,
                 execVars, catalogVars >>

\* the Targets a phase creates a task for: every element of self._targets
PhaseTargets(q) == Range(q)

\* Runtime.run: the graph of the requested target is handed to _run
Invoke(g) ==
    /\ invPc = "idle" /\ invocation < MaxInvocations
    /\ invocation' = invocation + 1
    /\ graph_left' = g
    /\ invPc' = "start"
    /\ UNCHANGED << rt_targets, ran, stopped >>
    /\ InvFrame

\* _lifecycle_start: the start of a Target constructed in this invocation
\* is reported done and the Target is appended to self._targets
StartTarget(t) ==
    /\ invPc = "start" /\ t \in graph_left
    /\ rt_targets' = Append(rt_targets, [name |-> t, made |-> invocation])
    /\ graph_left' = graph_left \ {t}
    /\ UNCHANGED << invocation, invPc, ran, stopped >>
    /\ InvFrame

\* a start raises: the invocation ends without a run or a stop
StartRaises(t) ==
    /\ invPc = "start" /\ t \in graph_left
    /\ invPc' = "idle" /\ graph_left' = {}
    /\ UNCHANGED << invocation, rt_targets, ran, stopped >>
    /\ InvFrame

\* _lifecycle_run
RunAll ==
    /\ invPc = "start" /\ graph_left = {}
    /\ ran' = ran \cup {[by |-> invocation, target |-> T] : T \in PhaseTargets(rt_targets)}
    /\ invPc' = "run"
    /\ UNCHANGED << invocation, graph_left, rt_targets, stopped >>
    /\ InvFrame

\* _lifecycle_stop, after which _run returns
StopAll ==
    /\ invPc = "run"
    /\ stopped' = stopped \cup {[by |-> invocation, target |-> T] : T \in PhaseTargets(rt_targets)}
    /\ invPc' = "idle"
    /\ UNCHANGED << invocation, graph_left, rt_targets, ran >>
    /\ InvFrame

InvocationNext ==
    \/ \E g \in SUBSET GraphNames \ {{}} : Invoke(g)
    \/ \E t \in GraphNames : StartTarget(t)
    \/ \E t \in GraphNames : StartRaises(t)
    \/ RunAll
    \/ StopAll

InvocationSpec == InvocationInit /\ [][InvocationNext]_vars

----------------------------------------------------------------------------
\* Properties

Dispatched(ph, t) == st[<<ph, t>>] # "none"
Begun(ph, t)      == <<ph, t>> \in begun
InFlight(ph, t)   == Begun(ph, t) /\ st[<<ph, t>>] \notin Final
\* nothing is left for the loop to run and no task awaits I/O
Quiescent         == ready = <<>> /\ \A x \in CompTasks : st[x] = "susp" => IsBarrier(x)
LifeEnded         == st[LIFE] \in Final
Started           == Range(targets)
IsPrefix(p, q)    == Len(p) <= Len(q) /\ \A i \in 1..Len(p) : p[i] = q[i]
StopableOf(q)     == SelectSeq(q, LAMBDA t : stopable(S, t))
\* no INT or TERM has been received
NoSignal          == ~stop_event /\ SigH \notin Range(ready)
NoFailure         == \A x \in CompTasks : st[x] # "failed"
RunEnded          == mainPc \in {"returned", "raised"}

\* C1: start-happens-before. A target is constructed only after the start of
\* each of its dependencies has finished (or the dependency, having no start,
\* was marked done), and its own start begins only after those starts returned.
C1_StartHappensBefore ==
    \A T \in Targets : \A D \in deps[T] :
        /\ T \in contexts =>
              IF startable(S, D) THEN st[<<"start", D>>] \in {"ok", "failed"} ELSE D \in gDone
        /\ Begun("start", T) => (startable(S, D) => st[<<"start", D>>] = "ok")

C1_Witness ==
    \E T \in Targets : \E D \in deps[T] :
        startable(S, D) /\ Begun("start", T) /\ st[<<"start", D>>] = "ok"

C3_OneStopInFlight == Cardinality({t \in Targets : InFlight("stop", t)}) <= 1

\* C3 as amended: Phase 3 dispatches the stop of every stopable target of
\* _targets at once; the stops begin in reverse list order and run concurrently.
C3_StopsDispatchedTogether ==
    /\ stopEntry # "none" => \A t \in Started : stopable(S, t) => Dispatched("stop", t)
    /\ \A i, j \in 1..Len(targets) :
          (i < j /\ stopable(S, targets[i]) /\ stopable(S, targets[j])
                 /\ Begun("stop", targets[i])) => Begun("stop", targets[j])

C3_Witness == Cardinality({t \in Targets : InFlight("stop", t)}) >= 2

\* C4 as stated: after a stop signal in Phase 1 no run is dispatched and every
\* stopable target whose start completed is stopped.
C4_StopAfterStartCancel ==
    (cancelledIn = "start" /\ LifeEnded) =>
        /\ \A t \in Targets : ~Dispatched("run", t)
        /\ \A t \in Started : stopable(S, t) => Dispatched("stop", t)

\* C4 as amended: after a stop signal in Phase 1 no run is dispatched and
\* Phase 3 is skipped as well: no stop is invoked on any target.
C4_NoRunNoStopAfterStartCancel ==
    cancelledIn = "start" =>
        \A t \in Targets : ~Dispatched("run", t) /\ ~Dispatched("stop", t)

C4_Witness ==
    /\ cancelledIn = "start" /\ st[LIFE] = "cancelled"
    /\ \E t \in Started : stopable(S, t)

\* C5: after a stop signal in Phase 2 every run is ended and every stopable
\* target whose start completed is stopped.
C5_StopAfterRunCancel ==
    (cancelledIn = "run" /\ LifeEnded) =>
        /\ \A t \in Targets : ~InFlight("run", t)
        /\ \A t \in Started : stopable(S, t) => Dispatched("stop", t)

\* C6: once Phase 3 has begun, however it was entered, a stop signal arriving
\* afterwards cancels no stop.  Phase 3 entered by a cancellation has seen its
\* signal already; for Phase 3 entered normally only signals that arrive after
\* it began are considered.  As long as no stop has itself failed, no stop is
\* cancelled, and every stop has run to its end when the lifecycle ends.
C6_StopNotInterrupted ==
    ((stopEntry = "normal" => ~sigAtStop) /\ \A t \in Targets : st[<<"stop", t>>] # "failed") =>
        /\ \A t \in Targets : st[<<"stop", t>>] # "cancelled" /\ ~mustCancel[<<"stop", t>>]
        /\ (stopEntry # "none" /\ LifeEnded) =>
              \A t \in Started : stopable(S, t) => st[<<"stop", t>>] = "ok"

\* C7: when a run raised, every stopable target whose start completed is
\* stopped before the lifecycle ends.
C7_StopAfterRunFailure ==
    ((\E t \in Targets : st[<<"run", t>>] = "failed") /\ LifeEnded) =>
        \A t \in Started : stopable(S, t) => Dispatched("stop", t)

\* C8: every target marked done is in the start-completion list, so a
\* lifecycle that ends normally has run every runable and stopped every
\* stopable target of the graph.
C8_EveryTargetDriven ==
    /\ \A t \in gDone : t \in Started
    /\ st[LIFE] = "ok" =>
          \A t \in Targets : /\ runable(S, t) => Dispatched("run", t)
                             /\ stopable(S, t) => Dispatched("stop", t)

\* C9: two independent targets whose starts wait for each other at a barrier
\* are dispatched together, so the run never gets stuck: when nothing is left
\* to do, _run has ended, with both starts completed unless a signal ended it.
C9_BarrierStartsComplete ==
    (barrier = {"a", "b"} /\ deps["a"] = {} /\ deps["b"] = {}) =>
        /\ (Begun("start", "a") \/ Begun("start", "b")) =>
              (Dispatched("start", "a") /\ Dispatched("start", "b"))
        /\ Quiescent =>
              /\ mainPc \in {"returned", "raised"}
              /\ cancelledIn = "none" =>
                    st[<<"start", "a">>] = "ok" /\ st[<<"start", "b">>] = "ok"

C9_Witness ==
    /\ barrier = {"a", "b"} /\ Quiescent /\ mainPc = "returned" /\ cancelledIn = "none"
    /\ st[<<"start", "a">>] = "ok" /\ st[<<"start", "b">>] = "ok"
    /\ "c" \in contexts

\* C10: whenever the scheduler waits for a pending start, every dependent of a
\* target without start whose dependencies are all done has been dispatched.
C10_NoStartNotBlocking ==
    (lifePc = "start_wait" /\ st[LIFE] = "susp") =>
        \A T \in Targets :
            ((\E D \in deps[T] : ~startable(S, D)) /\ deps[T] \subseteq gDone) => T \in passedOut

\* C11: when asyncio.wait of _lifecycle_start returns with completed starts,
\* every target whose dependencies are all done by then is handed out and, if
\* startable, has its start dispatched in that same step of the scheduler,
\* whether or not other starts are still pending.
C11_StartAsSoonAsReady ==
    [][(lifePc = "start_wait" /\ ~mustCancel[LIFE] /\ targets' # targets) =>
          \A T \in Targets :
              deps[T] \subseteq (gDone \cup Range(targets')) =>
                  /\ T \in passedOut'
                  /\ startable(S, T) => st'[<<"start", T>>] # "none"]_vars

C11_Witness ==
    /\ lifePc = "start_wait"
    /\ \E T, B \in Targets :
          /\ deps[T] # {} /\ B \notin deps[T] /\ B # T /\ deps[B] = {}
          /\ \A D \in deps[T] : startable(S, D)
          /\ Dispatched("start", T)
          /\ Begun("start", B) /\ st[<<"start", B>>] \notin Final

\* C12: in Phase 3 the failure of one stop cancels no other stop: unless a
\* signal cancelled the lifecycle during Phase 3, no stop is cancelled and
\* every stopable started target's stop has run to its end when the lifecycle ends.
C12_StopFailureIsolated ==
    cancelledIn # "stop" =>
        /\ \A t \in Targets : st[<<"stop", t>>] # "cancelled" /\ ~mustCancel[<<"stop", t>>]
        /\ (stopEntry # "none" /\ LifeEnded) =>
              \A t \in Started : stopable(S, t) => st[<<"stop", t>>] \in {"ok", "failed"}

\* C13: on every exit path of _run the INT and TERM handlers have been removed.
C13_HandlersRemoved == RunEnded => ~handlers

\* C14: if no signal arrives, the lifecycle is the first of the three tasks of
\* _run to end, and once nothing is left to run or to await, _run has
\* terminated with the signal watcher and the event pump cancelled; it has
\* returned with the lifecycle completed when no start, run or stop raised.
C14_LifecycleFirst ==
    NoSignal =>
        /\ (st[SIG] \in Final \/ st[PUMP] \in Final \/ mustCancel[SIG] \/ mustCancel[PUMP])
               => st[LIFE] \in Final
        /\ Quiescent =>
               /\ RunEnded /\ st[LIFE] \in {"ok", "failed"}
               /\ st[SIG] = "cancelled" /\ st[PUMP] = "cancelled"
               /\ NoFailure => (mainPc = "returned" /\ st[LIFE] = "ok")

C14_Witness ==
    /\ NoSignal /\ Quiescent /\ NoFailure /\ mainPc = "returned" /\ st[LIFE] = "ok"
    /\ st[SIG] = "cancelled" /\ st[PUMP] = "cancelled"
    /\ \E t \in Targets : st[<<"stop", t>>] = "ok"

\* C15: a run ended by a stop signal observed in Phase 2 or Phase 3 (Phase 1
\* is C4), in which no start, run or stop raised, returns without raising and
\* only after the stop of every stopable started target has completed.
C15_SignalEndsCleanly ==
    (cancelledIn \in {"run", "stop"} /\ NoFailure /\ RunEnded) =>
        /\ mainPc = "returned"
        /\ \A t \in Started : stopable(S, t) => st[<<"stop", t>>] = "ok"

\* the components exposing a capability, in declared order
Declared(cap) ==
    SelectSeq([i \in 1..Len(components) |-> i], LAMBDA i : cap \in components[i])

CompInFlight == {i \in DOMAIN cst : cst[i] \in {"new", "running", "resumed", "susp", "ready"}}

\* C16: Target.start invokes the startable components one at a time in declared
\* order, each only after the previous one returned; after a failure no later
\* component is invoked and the failure is the result of Target.start.
C16_StartSequential ==
    call = "start" =>
        /\ IsPrefix(invoked, Declared("start"))
        /\ Cardinality(CompInFlight) <= 1
        /\ \A k \in 1..Len(invoked) : k < Len(invoked) => cst[invoked[k]] = "ok"
        /\ (\E i \in DOMAIN cst : cst[i] = "failed") =>
              (result = "failed" /\ cst[invoked[Len(invoked)]] = "failed")
        /\ result = "ok" =>
              (invoked = Declared("start") /\ \A i \in Range(invoked) : cst[i] = "ok")

C16_Witness ==
    /\ call = "start" /\ result = "failed"
    /\ Len(invoked) = 2 /\ Len(Declared("start")) = 3
    /\ cst[invoked[1]] = "ok" /\ cst[invoked[2]] = "failed"

\* C17: Target.stop invokes the stopable components one at a time in reverse
\* declared order.
C17_StopSequentialReverse ==
    call = "stop" =>
        /\ IsPrefix(invoked, Reverse(Declared("stop")))
        /\ Cardinality(CompInFlight) <= 1
        /\ \A k \in 1..Len(invoked) : k < Len(invoked) => cst[invoked[k]] = "ok"
        /\ result = "ok" => invoked = Reverse(Declared("stop"))

C17_Witness ==
    /\ call = "stop" /\ result = "ok"
    /\ Len(invoked) = 3 /\ invoked = Reverse(Declared("stop"))

\* C18: when Target.stop has ended, by returning or by raising, the stop of
\* every stopable component has been invoked.
C18_StopFailureContinues ==
    (call = "stop" /\ result \in {"ok", "failed"}) => Range(invoked) = Range(Declared("stop"))

\* C19: Target.run creates the task of every runable component before any of
\* them begins, ends only when none of them is in flight, returns only when all
\* of them returned, and raises when one of them raised.
C19_RunConcurrent ==
    call = "run" =>
        /\ invoked # <<>> => \A i \in Range(Declared("run")) : cst[i] # "none"
        /\ \A i \in DOMAIN cst : cst[i] # "none" => i \in Range(Declared("run"))
        /\ result # "none" => CompInFlight = {}
        /\ (result # "none" /\ \E i \in DOMAIN cst : cst[i] = "failed") => result = "failed"
        /\ result = "ok" => \A i \in Range(Declared("run")) : cst[i] = "ok"

C19_Witness ==
    /\ call = "run" /\ result = "failed"
    /\ \E i, j \in Range(invoked) : cst[i] = "failed" /\ cst[j] = "cancelled"

\* C20: each capability list holds exactly the components exposing the
\* capability, in declared order, and each boolean is true iff its list is
\* non-empty.
C20_CapabilityLists ==
    /\ t_startable = Declared("start") /\ t_runable = Declared("run")
    /\ t_stopable = Declared("stop") /\ t_resetable = Declared("reset")
    /\ (t_startable # <<>>) <=> (\E i \in DOMAIN components : "start" \in components[i])
    /\ (t_runable # <<>>) <=> (\E i \in DOMAIN components : "run" \in components[i])
    /\ (t_stopable # <<>>) <=> (\E i \in DOMAIN components : "stop" \in components[i])
    /\ (t_resetable # <<>>) <=> (\E i \in DOMAIN components : "reset" \in components[i])

C20_Witness ==
    /\ Len(components) = 3
    /\ \E i \in DOMAIN components :
          /\ components[i] = {"start", "stop"}
          /\ i \in Range(t_startable) /\ i \in Range(t_stopable)
    /\ Len(t_startable) = 2 /\ Len(t_stopable) = 1 /\ t_runable = <<>> /\ t_resetable = <<>>

----------------------------------------------------------------------------
\* Registry properties

\* the names of the definitions built so far
Built == {definitions[i].name : i \in DOMAIN definitions}

\* the names that more than one loaded document produces
Colliding ==
    {n \in Names : Cardinality({i \in DOMAIN valid_targets : valid_targets[i].name = n}) > 1}

\* the names reachable from ns along the dependencies of the named documents
RECURSIVE ReachFrom(_)
ReachFrom(ns) ==
    LET next == ns \cup UNION {Predecessors(n) : n \in ns}
    IN  IF next = ns THEN ns ELSE ReachFrom(next)

HasCycle == \E n \in Names : n \in ReachFrom(Predecessors(n))

\* the names some document depends on and no document defines
UnknownDeps == Range(node2info) \ DOMAIN documents_named

\* C21: when two loaded documents produce the same final name, the building
\* of the definitions ends with the aggregate TargetErrors that records the
\* colliding names; no document takes the place of an earlier one silently.
C21_NameCollisionFails ==
    (buildResult # "none" /\ Colliding # {}) => buildResult = "raised:TargetErrors"

C23_TopologicalBuild ==
    /\ \A i \in DOMAIN definitions :
          /\ definitions[i].dependencies = Predecessors(definitions[i].name)
          /\ \A d \in definitions[i].dependencies :
                \E j \in 1..(i - 1) : definitions[j].name = d
    /\ \A i, j \in DOMAIN definitions : definitions[i].name = definitions[j].name => i = j
    /\ buildResult = "definitions" => Built = DOMAIN documents_named
    /\ buildResult = "raised:KeyError" => UnknownDeps # {}

C23_Witness ==
    /\ buildResult = "definitions"
    /\ [i \in DOMAIN definitions |-> definitions[i].name] = <<"z", "y", "x">>
    /\ definitions[2].dependencies = {"z"}
    /\ definitions[3].dependencies = {"y"}

\* C24: the definitions built for the run of a requested root are exactly the
\* targets of the root's transitive dependency closure, the root included.
C24_GraphIsClosure ==
    (requested # "none" /\ requested \in DOMAIN documents_named) =>
        Built = ReachFrom({requested})

\* C25: when a dependency names a target that no document defines, the
\* building ends with a failure result and not with a raised lookup error.
C25_UnknownDependencyFails ==
    (buildResult # "none" /\ UnknownDeps # {}) =>
        buildResult \in {"RegistryFailed:UnknownDependency", "RegistryFailed:DependencyCycle"}

\* C26: attempt_init ends with a value: the NoConfig failure for a failed
\* configuration, a Registry or a RegistryFailed otherwise; it never raises.
C26_AttemptInitReturns ==
    (regPc = "end" /\ requested = "none") =>
        IF config_ok
        THEN regOutcome \in {"Registry", "RegistryFailed:DependencyCycle",
                             "RegistryFailed:UnknownDependency"}
        ELSE regOutcome = "RegistryFailed:NoConfig"

\* C27: once the loading is over, every .toml file has exactly one outcome:
\* a valid document when it parses and validates, one entry of the invalid
\* list otherwise, whether validation or parsing failed.
C27_OneOutcomePerFile ==
    regPc \notin {"idle", "start", "load"} =>
        \A p \in DOMAIN files :
            /\ Cardinality({i \in DOMAIN valid_targets : valid_targets[i].path = p})
                  = (IF files[p].kind = "ok" THEN 1 ELSE 0)
            /\ Cardinality({i \in DOMAIN invalid_targets : invalid_targets[i][1] = p})
                  = (IF files[p].kind = "ok" THEN 0 ELSE 1)

----------------------------------------------------------------------------
\* Config properties

\* d and the directories above it, the filesystem root included
Ancestors(d) == {SubSeq(d, 1, k) : k \in 0..Len(d)}

\* the directories that hold a child named by some configured indicator
Indicated == {d \in Dirs : \E i \in 1..Len(indicators) : indicators[i] \in marks[d]}

\* every path some sibling pattern expands to, as the glob spells it
Candidates ==
    UNION {IF IsAbsolute(sibling_patterns[i])
           THEN AbsoluteGlob(sibling_patterns[i])
           ELSE RelativeGlob(sibling_patterns[i], cwp.dir) : i \in 1..Len(sibling_patterns)}

\* C28: the search from pwd ends with NotInProject exactly when neither pwd nor
\* a directory above it, the root included, holds a configured indicator;
\* otherwise the project found is the one of them nearest to pwd, whatever
\* else the directories on the way hold, and it is one of the projects of the
\* Config returned.
C28_NearestProject ==
    (cfgPc \notin {"idle", "file", "cwp"} /\ config_source # "none") =>
        /\ (cfgOutcome = "ConfigFailed:NotInProject") <=> (Ancestors(pwd) \cap Indicated = {})
        /\ Ancestors(pwd) \cap Indicated # {} =>
              /\ cwp.spell = <<>>
              /\ cwp.dir \in Ancestors(pwd) \cap Indicated
              /\ \A a \in Ancestors(pwd) \cap Indicated : Len(a) <= Len(cwp.dir)
        /\ cfgOutcome = "Config" => cwp \in projects

C28_Witness ==
    /\ cfgOutcome = "Config"
    /\ pwd = <<"w", "p", "d">>
    /\ indicators = <<".overrun">>
    /\ marks[P] = {".git"} /\ marks[W] = {".overrun"} /\ marks[ROOT] = {".overrun"}
    /\ cwp = Canonical(W)

\* C29: the sibling projects never hold the current working project; each is
\* the canonical path of a candidate some sibling pattern expands to and holds
\* a project indicator; every other candidate with an indicator is among them;
\* and the patterns in the opposite order give the same set.
C29_SiblingProjects ==
    (cfgPc \in {"targets", "end"} /\ cfgOutcome \notin ConfigFailures) =>
        /\ cwp \notin sibling_projects
        /\ \A m \in sibling_projects :
              /\ m.spell = <<>>
              /\ m.dir \in Indicated
              /\ \E c \in Candidates : c.dir = m.dir
        /\ \A c \in Candidates :
              (c.dir \in Indicated /\ c.dir # cwp.dir) => Canonical(c.dir) \in sibling_projects
        /\ sibling_projects = SiblingProjectsOf(Reverse(sibling_patterns), cwp)

C29_Witness ==
    /\ cfgOutcome = "Config"
    /\ link = P
    /\ sibling_patterns = <<"/w/s2", "../*">>
    /\ <<"w", "s2">> \notin Indicated
    /\ sibling_projects = {Canonical(<<"w", "s1">>)}

\* C30: every key of target_directories is a project; every value is a
\* non-empty set whose members are each the join of the key with a target
\* directory pattern that is an existing directory; a project none of whose
\* joins is an existing directory is not a key.
C30_TargetDirectories ==
    cfgOutcome = "Config" =>
        /\ DOMAIN target_directories \subseteq projects
        /\ \A p \in DOMAIN target_directories :
              /\ target_directories[p] # {}
              /\ \A v \in target_directories[p] :
                    \E i \in 1..Len(target_patterns) :
                        /\ v = Canonical(Append(p.dir, target_patterns[i]))
                        /\ tkind[p.dir][target_patterns[i]] = "dir"
        /\ \A p \in projects :
              (\A i \in 1..Len(target_patterns) : tkind[p.dir][target_patterns[i]] # "dir")
                  => p \notin DOMAIN target_directories

C30_Witness ==
    /\ cfgOutcome = "Config"
    /\ Cardinality(projects) = 3
    /\ target_patterns = <<"t1", "t2">>
    /\ tkind[<<"w", "s2">>] = [t \in TargetPatterns |-> IF t = "t1" THEN "file" ELSE "missing"]
    /\ DOMAIN target_directories = {Canonical(P), Canonical(<<"w", "s1">>)}
    /\ Cardinality(target_directories[Canonical(P)]) = 2
    /\ Cardinality(target_directories[Canonical(<<"w", "s1">>)]) = 1

----------------------------------------------------------------------------
\* Runtime properties across the phases

StartFailed == {t \in Targets : st[<<"start", t>>] = "failed"}

\* C32: a run is dispatched only when every target of the graph is done with
\* Phase 1 (its start returned, or it has none and was marked done), and a
\* stop is dispatched only when no run is left in flight.
C32_PhasesOrdered ==
    /\ (\E t \in Targets : Dispatched("run", t)) =>
          \A u \in Targets :
              IF startable(S, u) THEN st[<<"start", u>>] = "ok" ELSE u \in gDone
    /\ (\E t \in Targets : Dispatched("stop", t)) =>
          \A u \in Targets : st[<<"run", u>>] \in Final \cup {"none"}

C32_Witness ==
    /\ cancelledIn = "run"
    /\ \E t, u \in Targets :
          /\ Begun("stop", t)
          /\ st[<<"run", t>>] = "ok" /\ st[<<"run", u>>] = "cancelled" /\ Begun("run", u)

\* C33: a run or a stop is dispatched on a target with a start capability
\* only after that target's own start has returned without error.
C33_StartedBeforeRunAndStop ==
    \A t \in Targets :
        (startable(S, t) /\ (Dispatched("run", t) \/ Dispatched("stop", t))) =>
            st[<<"start", t>>] = "ok"

C33_Witness ==
    \E t \in Targets :
        /\ caps[t] = Exec /\ st[<<"start", t>>] = "ok"
        /\ Begun("run", t) /\ Begun("stop", t)

\* C34: once a start has failed, no run is dispatched, the start method of a
\* target depending on the failed one never begins to execute, every start
\* still pending when the group aborts is cancelled, the lifecycle ends
\* failed with no start left in flight, and _run ends by raising.
C34_StartFailurePropagates ==
    StartFailed # {} =>
        /\ \A u \in Targets : ~Dispatched("run", u)
        /\ \A d \in Targets : deps[d] \cap StartFailed # {} => ~Begun("start", d)
        /\ tgAborting["start"] =>
              \A u \in Targets :
                  st[<<"start", u>>] \notin Final \cup {"none"} => mustCancel[<<"start", u>>]
        /\ LifeEnded =>
              /\ st[LIFE] = "failed"
              /\ \A u \in Targets : st[<<"start", u>>] \in Final \cup {"none"}
        /\ RunEnded => mainPc = "raised"
        /\ Quiescent => RunEnded

C34_Witness ==
    /\ mainPc = "raised" /\ NoSignal
    /\ \E t, u, d \in Targets :
          /\ st[<<"start", t>>] = "failed" /\ st[<<"start", u>>] = "cancelled"
          /\ Begun("start", u)
          /\ t \in deps[d] /\ d \notin contexts

\* C35: get_ready returns every node at most once and done is called on it at
\* most once, only after get_ready returned it and, for a startable target,
\* after its start has returned; when nothing is left to do and neither a
\* cancellation in Phase 1 nor a failed start ended the loop, every node was
\* returned and marked done, no start is pending and the graph is not active.
C35_ReadyOnceDoneOnce ==
    /\ \A t \in Targets :
          /\ readyCalls[t] <= 1 /\ doneCalls[t] <= 1
          /\ doneCalls[t] = 1 =>
                (readyCalls[t] = 1 /\ (startable(S, t) => st[<<"start", t>>] \in {"ok", "failed"}))
    /\ ((lifePc \notin {"init", "start_wait", "start_exit"} /\ st[LIFE] \notin {"failed", "cancelled"})
           \/ (Quiescent /\ cancelledIn # "start" /\ StartFailed = {})) =>
          /\ \A t \in Targets : readyCalls[t] = 1 /\ doneCalls[t] = 1
          /\ target_starts = {}
          /\ ~is_active(S)

C35_Witness ==
    /\ lifePc = "run_wait"
    /\ \A t \in Targets : readyCalls[t] = 1 /\ doneCalls[t] = 1
    /\ \E t \in Targets : ~startable(S, t)
    /\ \E t \in Targets : deps[t] # {} /\ startable(S, t)

----------------------------------------------------------------------------
\* Configuration file properties

\* the order env, explicit, default applied to every form of the argument: a
\* stream is read only when neither the environment nor the default names a file
ResolutionOrder(f) ==
    LET found == config_file_search(f.env, IF f.arg = "Stream" THEN "None" ELSE f.arg,
                                    f.default /\ f.arg # "Stream")
    IN  IF found = "None" THEN (IF f.arg = "Stream" THEN "Stream" ELSE "defaults") ELSE found

\* C31: whatever the form of the argument, the file named by OVERRUN_CONFIG is
\* the one read when the variable is set (EnvPathNotFound when it is missing),
\* else the explicit path (ExplicitPathNotFound when it is missing), else the
\* default file when it exists and the built-in defaults when it does not.
C31_ResolutionOrder ==
    cfgPc \notin {"idle", "file"} =>
        LET want == ResolutionOrder(file_in)
        IN  IF want \in ConfigFailures THEN cfgOutcome = want ELSE config_source = want

----------------------------------------------------------------------------
\* Loaded document properties

\* C38: the project of every loaded document is a key of target_directories,
\* the project root whose target directories hold the document's file.
C38_ProjectIsProjectRoot ==
    \A i \in DOMAIN valid_targets :
        /\ valid_targets[i].project \in DOMAIN ScannedTargetDirectories
        /\ DirOfFile(valid_targets[i].path)
              \in ScannedTargetDirectories[valid_targets[i].project]

----------------------------------------------------------------------------
\* Exec properties

ExecRank ==
    CASE execPc = "started" -> 1 [] execPc = "grace_wait" -> 2 [] execPc = "term_wait" -> 3
      [] execPc \in {"returned", "raised"} -> 4 [] OTHER -> 0

\* C37: the signals handed over are none, SIGTERM, or SIGTERM then SIGKILL; a
\* 100 ms wait ended by the exit ends stop with no signal; SIGKILL is handed
\* over only when the 5 s wait timed out and the transport knows of no exit;
\* no signal is handed over once the transport knows the exit; and stop
\* always ends: each of its steps moves it forward, and while it waits a
\* step of its own is possible whatever the subprocess does.
C37_StopEscalates ==
    /\ [](/\ signals \in {<<>>, <<"SIGTERM">>, <<"SIGTERM", "SIGKILL">>}
          /\ execPc \in {"started"} \cup Waits => ENABLED StopStep)
    /\ [][/\ execPc' # execPc => ExecRank' > ExecRank
          /\ (execPc = "grace_wait" /\ wake = "exit" /\ execPc' # execPc) =>
                (execPc' = "returned" /\ signals' = <<>>)
          /\ signals' # signals => exit_seen = "no" /\ wake = "timeout"
          /\ (signals' # signals /\ signals'[Len(signals')] = "SIGKILL") =>
                execPc = "term_wait"]_vars

C37_Witness ==
    /\ execPc = "returned" /\ signals = <<"SIGTERM", "SIGKILL">>
    /\ proc_state = "running"

\* C39: whatever env the component was given, the subprocess is spawned with
\* a PATH: the component's own when it sets one, else that of the overrun process.
C39_PathPropagated ==
    execPc \notin {"idle", "built"} =>
        child_env["PATH"] = IF "PATH" \in args_env.names THEN "own" ELSE "parent"

----------------------------------------------------------------------------
\* Catalog and invocation properties

\* the name with an underscore at every boundary from a lower-case to an
\* upper-case letter and from a letter to a digit
RECURSIVE SnakeAtBoundaries(_, _)
SnakeAtBoundaries(s, i) ==
    IF i > Len(s) THEN <<>>
    ELSE IF /\ i < Len(s)
            /\ \/ s[i] \in Lower /\ s[i + 1] \in Upper
               \/ s[i] \in Upper \cup Lower /\ s[i + 1] \in Digit
    THEN <<s[i], "_">> \o SnakeAtBoundaries(s, i + 1)
    ELSE <<s[i]>> \o SnakeAtBoundaries(s, i + 1)

RECURSIVE CatalogOf(_, _)
CatalogOf(regs, catalog) ==
    IF regs = <<>> THEN catalog
    ELSE CatalogOf(Tail(regs),
             StoreType(catalog, ToLower(SnakeAtBoundaries(Head(regs).name, 1)), Head(regs)))

\* C40: the catalog is the one obtained by storing every registered type, in
\* the order of registration, under its name with an underscore at every
\* lower-to-upper and letter-to-digit boundary, lowercased: a later type of
\* the same key takes the earlier one's place, a type registered twice is
\* there once.
C40_CatalogKeys == COMPONENT_TYPES = CatalogOf(registered, <<>>)

\* C36: a Target is run and stopped only by the invocation that constructed it.
C36_OwnTargetsOnly ==
    \A r \in ran \cup stopped : r.target.made = r.by

====
